---------------------------- MODULE Spec2Model ----------------------------
(***************************************************************************)
(* Model of the image placement and sizing geometry of                     *)
(* mac/add-photo-to-pdf.py (class PDFImageInserter).                       *)
(*                                                                         *)
(* Numbers.  The geometry is computed in Python floats (IEEE 754 binary64, *)
(* round to nearest, ties to even).  A float is modelled exactly, as a     *)
(* record [sgn, man, exp] of value (-1)^sgn * man * 2^exp, where man is an *)
(* arbitrary-precision natural number (a little-endian sequence of         *)
(* 15-bit limbs) that is odd or zero, so that every float has one          *)
(* representation.  Every arithmetic step rounds to 53 significant bits as *)
(* the hardware does.  Exponent overflow, subnormals, NaN and infinities   *)
(* are outside the modelled input ranges.                                  *)
(***************************************************************************)
EXTENDS Integers, Sequences, FiniteSets, TLC

(***************************************************************************)
(* Arbitrary-precision naturals: little-endian limb sequences, no leading  *)
(* (most significant) zero limb; zero is <<>>.                             *)
(***************************************************************************)
LimbBits == 15

Base == 2^LimbBits

Limb(a, i) == IF i <= Len(a) THEN a[i] ELSE 0

RECURSIVE BTrim(_)
BTrim(a) ==
    IF a = <<>> THEN a
    ELSE IF a[Len(a)] = 0 THEN BTrim(SubSeq(a, 1, Len(a) - 1))
    ELSE a

RECURSIVE BFromNat(_)
BFromNat(n) == IF n = 0 THEN <<>> ELSE <<n % Base>> \o BFromNat(n \div Base)

RECURSIVE BAddFrom(_, _, _, _)
BAddFrom(a, b, i, c) ==
    IF i > Len(a) /\ i > Len(b)
    THEN (IF c = 0 THEN <<>> ELSE <<c>>)
    ELSE LET t == Limb(a, i) + Limb(b, i) + c
         IN  <<t % Base>> \o BAddFrom(a, b, i + 1, t \div Base)

BAdd(a, b) == BAddFrom(a, b, 1, 0)

\* a - b for a >= b
RECURSIVE BSubFrom(_, _, _, _)
BSubFrom(a, b, i, c) ==
    IF i > Len(a) THEN <<>>
    ELSE LET t == a[i] - Limb(b, i) - c
         IN  IF t < 0 THEN <<t + Base>> \o BSubFrom(a, b, i + 1, 1)
                      ELSE <<t>> \o BSubFrom(a, b, i + 1, 0)

BSub(a, b) == BTrim(BSubFrom(a, b, 1, 0))

\* -1, 0, 1 as a < b, a = b, a > b
RECURSIVE BCmpFrom(_, _, _)
BCmpFrom(a, b, i) ==
    IF i = 0 THEN 0
    ELSE IF a[i] < b[i] THEN -1
    ELSE IF a[i] > b[i] THEN 1
    ELSE BCmpFrom(a, b, i - 1)

BCmp(a, b) ==
    IF Len(a) < Len(b) THEN -1
    ELSE IF Len(a) > Len(b) THEN 1
    ELSE BCmpFrom(a, b, Len(a))

\* a * k for 0 <= k <= Base
RECURSIVE BMulSmallFrom(_, _, _, _)
BMulSmallFrom(a, k, i, c) ==
    IF i > Len(a)
    THEN (IF c = 0 THEN <<>> ELSE <<c>>)
    ELSE LET t == a[i] * k + c
         IN  <<t % Base>> \o BMulSmallFrom(a, k, i + 1, t \div Base)

BMulSmall(a, k) == IF k = 0 THEN <<>> ELSE BMulSmallFrom(a, k, 1, 0)

ZeroLimbs(n) == [i \in 1..n |-> 0]

RECURSIVE BMulFrom(_, _, _)
BMulFrom(a, b, i) ==
    IF i > Len(b) THEN <<>>
    ELSE BAdd(IF b[i] = 0 THEN <<>> ELSE ZeroLimbs(i - 1) \o BMulSmall(a, b[i]),
              BMulFrom(a, b, i + 1))

BMul(a, b) == IF a = <<>> \/ b = <<>> THEN <<>> ELSE BMulFrom(a, b, 1)

\* a * 2^n
BShl(a, n) ==
    IF a = <<>> THEN <<>>
    ELSE ZeroLimbs(n \div LimbBits) \o BMulSmall(a, 2^(n % LimbBits))

\* floor(a / 2^n)
BShr(a, n) ==
    LET d == n \div LimbBits
        r == n % LimbBits
        p == 2^r
        q == 2^(LimbBits - r)
    IN  IF d >= Len(a) THEN <<>>
        ELSE BTrim([i \in 1..(Len(a) - d) |->
                      (a[i + d] \div p) + (Limb(a, i + d + 1) % p) * q])

\* bit n (0 = least significant) of a
BBit(a, n) == (Limb(a, (n \div LimbBits) + 1) \div 2^(n % LimbBits)) % 2

RECURSIVE NatBitLen(_)
NatBitLen(n) == IF n = 0 THEN 0 ELSE 1 + NatBitLen(n \div 2)

BBitLen(a) ==
    IF a = <<>> THEN 0 ELSE LimbBits * (Len(a) - 1) + NatBitLen(a[Len(a)])

\* a mod 2^n = 0
BLowZero(a, n) ==
    /\ \A i \in 1..(n \div LimbBits) : Limb(a, i) = 0
    /\ Limb(a, (n \div LimbBits) + 1) % 2^(n % LimbBits) = 0

RECURSIVE NatTrailingZeros(_)
NatTrailingZeros(n) == IF n % 2 = 1 THEN 0 ELSE 1 + NatTrailingZeros(n \div 2)

\* number of trailing zero bits of a # 0
BTrailingZeros(a) ==
    LET i == CHOOSE j \in 1..Len(a) : a[j] # 0 /\ \A k \in 1..(j - 1) : a[k] = 0
    IN  LimbBits * (i - 1) + NatTrailingZeros(a[i])

\* One step of binary long division by b: st holds the quotient and the
\* remainder of the bits of the dividend read so far, bit is the next one.
BDivStep(st, b, bit) ==
    LET r2 == IF bit = 1 THEN BAdd(BMulSmall(st.r, 2), <<1>>) ELSE BMulSmall(st.r, 2)
        q2 == BMulSmall(st.q, 2)
    IN  IF BCmp(r2, b) >= 0
        THEN [q |-> BAdd(q2, <<1>>), r |-> BSub(r2, b)]
        ELSE [q |-> q2, r |-> r2]

\* The division steps for bits hi down to lo of a (the range is halved
\* rather than walked, which keeps the nesting of the evaluation shallow).
RECURSIVE BDivBits(_, _, _, _, _)
BDivBits(st, a, b, hi, lo) ==
    IF hi < lo THEN st
    ELSE IF hi = lo THEN BDivStep(st, b, BBit(a, hi))
    ELSE LET mid == (hi + lo + 1) \div 2
             s1  == BDivBits(st, a, b, hi, mid)
         IN  IF s1.r = <<>> \/ s1.r # <<>> THEN BDivBits(s1, a, b, mid - 1, lo) ELSE s1

\* Long division of limbs i down to 1 of a by a one-limb divisor d, r being
\* the remainder of the limbs above i: <<quotient limbs 1..i, remainder>>.
RECURSIVE BDivLimbFrom(_, _, _, _)
BDivLimbFrom(a, d, i, r) ==
    IF i = 0 THEN <<(<<>>), r>>
    ELSE LET t    == r * Base + a[i]
             rest == BDivLimbFrom(a, d, i - 1, t % d)
         IN  <<Append(rest[1], t \div d), rest[2]>>

\* <<floor(a / b), a mod b>> for b # 0
BDivMod(a, b) ==
    IF Len(b) = 1
    THEN LET qr == BDivLimbFrom(a, b[1], Len(a), 0)
         IN  <<BTrim(qr[1]), BFromNat(qr[2])>>
    ELSE LET st == BDivBits([q |-> <<>>, r |-> <<>>], a, b, BBitLen(a) - 1, 0)
         IN  <<st.q, st.r>>

(***************************************************************************)
(* IEEE 754 binary64 values and arithmetic.                                *)
(***************************************************************************)
MantBits == 53

\* the float of value (-1)^s * m * 2^e, for m of at most MantBits bits
FCanon(s, m, e) ==
    IF m = <<>> THEN [sgn |-> s, man |-> <<>>, exp |-> 0]
    ELSE LET z == BTrailingZeros(m)
         IN  [sgn |-> s, man |-> BShr(m, z), exp |-> e + z]

\* round (-1)^s * (m + f) * 2^e to the nearest float, ties to even, where
\* 0 <= f < 1 and sticky says whether f > 0
FRound(s, m, e, sticky) ==
    LET len == BBitLen(m)
        sh  == len - MantBits
    IN  IF sh <= 0 THEN FCanon(s, m, e)
        ELSE LET q    == BShr(m, sh)
                 half == BBit(m, sh - 1) = 1
                 low  == sticky \/ ~BLowZero(m, sh - 1)
                 up   == half /\ (low \/ BBit(q, 0) = 1)
             IN  FCanon(s, IF up THEN BAdd(q, <<1>>) ELSE q, e + sh)

\* the float of a small integer
FInt(n) == IF n < 0 THEN FCanon(1, BFromNat(-n), 0) ELSE FCanon(0, BFromNat(n), 0)

\* the float n / 2^k (exact)
FDyadic(n, k) ==
    IF n < 0 THEN FCanon(1, BFromNat(-n), -k) ELSE FCanon(0, BFromNat(n), -k)

FIsZero(a) == a.man = <<>>

FNeg(a) == [a EXCEPT !.sgn = 1 - a.sgn]

\* the exact product and the exact sum of two dyadic numbers (records of the
\* same shape as a float, with a mantissa of any length)
DMul(a, b) == FCanon((a.sgn + b.sgn) % 2, BMul(a.man, b.man), a.exp + b.exp)

DAdd(a, b) ==
    LET e  == IF a.exp < b.exp THEN a.exp ELSE b.exp
        ma == BShl(a.man, a.exp - e)
        mb == BShl(b.man, b.exp - e)
        c  == BCmp(ma, mb)
    IN  IF a.sgn = b.sgn THEN FCanon(a.sgn, BAdd(ma, mb), e)
        ELSE IF c = 0 THEN FCanon(0, <<>>, 0)
        ELSE IF c > 0 THEN FCanon(a.sgn, BSub(ma, mb), e)
        ELSE FCanon(b.sgn, BSub(mb, ma), e)

DSub(a, b) == DAdd(a, FNeg(b))

\* d * 2^n, exact
DScale(d, n) == IF d.man = <<>> THEN d ELSE [d EXCEPT !.exp = d.exp + n]

\* the float nearest to the dyadic number d
FRoundD(d) == FRound(d.sgn, d.man, d.exp, FALSE)

\* a * b, a + b, a - b: the exact result, rounded once
FMul(a, b) == FRoundD(DMul(a, b))

\* a / b for b # 0
FDiv(a, b) ==
    LET d  == MantBits + 2 + BBitLen(b.man) - BBitLen(a.man)
        k  == IF d > 0 THEN d ELSE 0
        qr == BDivMod(BShl(a.man, k), b.man)
    IN  FRound((a.sgn + b.sgn) % 2, qr[1], a.exp - b.exp - k, qr[2] # <<>>)

\* -1, 0, 1 as |a| < |b|, |a| = |b|, |a| > |b|
FCmpAbs(a, b) ==
    LET e == IF a.exp < b.exp THEN a.exp ELSE b.exp
    IN  BCmp(BShl(a.man, a.exp - e), BShl(b.man, b.exp - e))

\* -1, 0, 1 as a < b, a = b, a > b  (-0.0 = 0.0)
FCmp(a, b) ==
    IF FIsZero(a) /\ FIsZero(b) THEN 0
    ELSE IF FIsZero(a) THEN (IF b.sgn = 1 THEN 1 ELSE -1)
    ELSE IF FIsZero(b) THEN (IF a.sgn = 1 THEN -1 ELSE 1)
    ELSE IF a.sgn # b.sgn THEN (IF a.sgn = 1 THEN -1 ELSE 1)
    ELSE IF a.sgn = 0 THEN FCmpAbs(a, b) ELSE FCmpAbs(b, a)

FLt(a, b) == FCmp(a, b) < 0

FLe(a, b) == FCmp(a, b) <= 0

FEq(a, b) == FCmp(a, b) = 0

FAdd(a, b) == FRoundD(DAdd(a, b))

FSub(a, b) == FAdd(a, FNeg(b))

\* Python's min(a, b) and max(a, b): the first argument unless the second is
\* strictly smaller (larger)
FMin(a, b) == IF FLt(b, a) THEN b ELSE a

FMax(a, b) == IF FLt(a, b) THEN b ELSE a

(***************************************************************************)
(* Optional arguments: Python's None is <<>>, a given value v is <<v>>.    *)
(***************************************************************************)
None == <<>>

Some(v) == <<v>>

IsNone(o) == o = <<>>

\* what a call did: it returned a value or it raised an exception
Returned(v) == [status |-> "returned", exc |-> "", value |-> v]

Raised(e) == [status |-> "raised", exc |-> e, value |-> <<>>]

NotCalled == [status |-> "none", exc |-> "", value |-> <<>>]

(***************************************************************************)
(* Bounds of the model and the inputs drawn from them.                     *)
(***************************************************************************)
\* sides of the small images: every image of 1..MaxImageSide pixels a side
MaxImageSide == 2

\* the small requested lengths, in points: 1..MaxLength
MaxLength == 2

\* Pixel sizes <<width, height>> of the image file.  400 x 600 is the
\* portrait photo of the documented scenarios; 3 x 11 is an image whose
\* quotients are not binary fractions.
Images ==
    {<<w, h>> : w \in 1..MaxImageSide, h \in 1..MaxImageSide}
        \cup {<<400, 600>>, <<3, 11>>}

\* values of --width and --height (argparse type=float, not validated)
Lengths == {FInt(n) : n \in (1..MaxLength) \cup {15, 200, 0, -1}}

\* values of --scale (argparse type=float, not validated)
Scales == {FDyadic(1, 1), FInt(0), FInt(-1)}

OptLengths == {None} \cup {Some(v) : v \in Lengths}

OptScales == {None} \cup {Some(v) : v \in Scales}

FitModes == {"fit", "fill", "stretch"}

(***************************************************************************)
(* State.                                                                  *)
(***************************************************************************)
VARIABLES
    image_readable,   \* whether fitz.Pixmap can decode self.image_path
    original_width,   \* img.width of the Pixmap of self.image_path
    original_height,  \* img.height of the Pixmap of self.image_path
    size_call,        \* arguments of the calculate_image_size call
    size_ret,         \* what that call returned
    pos_call,         \* arguments of the calculate_position call
    pos_ret,          \* what that call returned
    env,              \* the installation and the files the paths name
    pdf,              \* self.pdf: "None", "open" or "closed"
    io,               \* the external operations made so far, in order
    pc,               \* where the run is, in main and in insert_image
    argv,             \* the command line main was started with
    ins_args,         \* arguments of the insert_image call
    frame,            \* locals of the insert_image call
    ins_ret,          \* what insert_image returned
    exit_status,      \* the status main exited with, if it did
    ps_out,           \* what running `ollama ps` does
    backend,          \* the GPU backend the platform checks find, "" if none
    gpu_call,         \* which get_ollama_gpu_info was called, "none" if none
    gpu_info,         \* the dict that call returned
    bench_in,         \* the entry point, command line and `ollama ls` of the run
    bpc,              \* where the benchmark run is
    models,           \* the model list of the benchmark run
    runs,             \* the `ollama run` invocations so far and what each did
    results,          \* the list of benchmark results
    report            \* the rendered report, if any

imageVars == <<image_readable, original_width, original_height>>

worldVars == <<env, pdf, io>>

sizeVars == <<size_call, size_ret>>

posVars == <<pos_call, pos_ret>>

ctlVars == <<pc, argv, ins_args, frame, ins_ret, exit_status>>

gpuVars == <<ps_out, backend, gpu_call, gpu_info>>

benchVars == <<bench_in, bpc, models, runs, results, report>>

ollamaVars == <<gpuVars, benchVars>>

toolVars == <<imageVars, sizeVars, posVars, worldVars, ctlVars>>

vars == <<toolVars, ollamaVars>>

NoSizeCall ==
    [width |-> None, height |-> None, scale |-> None,
     keep_aspect |-> TRUE, fit_mode |-> "fit"]

NoPosCall ==
    [page_width |-> FInt(0), page_height |-> FInt(0), img_width |-> FInt(0),
     img_height |-> FInt(0), position |-> None, x |-> None, y |-> None,
     margin |-> FInt(0)]

\* the locals of insert_image before anything is assigned
NoFrame == [page |-> <<>>, result |-> None, failed |-> ""]

NoInsertCall ==
    [page_num |-> 0, position |-> None, x |-> None, y |-> None,
     width |-> None, height |-> None, scale |-> None, margin |-> FInt(20),
     keep_aspect |-> TRUE, opacity |-> FInt(1), rotation |-> 0,
     fit_mode |-> "fit"]

NoArgv ==
    [setup |-> FALSE, paths |-> FALSE, page |-> 0, position |-> None,
     x |-> None, y |-> None, width |-> None, height |-> None, scale |-> None,
     margin |-> FInt(20), fit_mode |-> "fit", no_aspect |-> FALSE,
     opacity |-> FInt(1), rotation |-> 0]

\* an installation with PyMuPDF, a one-page A4 PDF, the image and the output
\* directory in place
PlainEnv ==
    [fitz |-> TRUE, pdf_exists |-> TRUE, image_exists |-> TRUE,
     outdir_exists |-> TRUE, pdf_openable |-> TRUE,
     pages |-> <<<<FInt(595), FInt(842)>>>>]

\* the text 'N/A', one character per element
NA == <<"N", "/", "A">>

\* the dict get_ollama_gpu_info starts from; "error" is the key it adds when
\* something raised
NoGpuInfo ==
    [gpu_available |-> FALSE, gpu_in_use |-> FALSE, gpu_layers |-> NA,
     details |-> "Unknown", error |-> None]

\* an `ollama ps` that prints nothing and exits with 0
NoPs == [raises |-> FALSE, returncode |-> 0, stdout |-> <<>>]

\* no call of get_ollama_gpu_info
NoGpuCall == [fn |-> "none", strategies |-> <<>>]

\* no benchmark run
NoBenchIn ==
    [entry |-> "", specified |-> <<>>,
     ls |-> [kind |-> "exit", returncode |-> 0, stdout |-> <<>>]]

BenchIdle ==
    /\ bench_in = NoBenchIn
    /\ bpc = "idle"
    /\ models = <<>>
    /\ runs = <<>>
    /\ results = <<>>
    /\ report = None

\* no GPU query and no benchmark run
OllamaIdle ==
    /\ ps_out = NoPs
    /\ backend = ""
    /\ gpu_call = NoGpuCall
    /\ gpu_info = NoGpuInfo
    /\ BenchIdle

\* no run of main and no call of insert_image
PdfIdle ==
    /\ env = PlainEnv
    /\ pdf = "None"
    /\ io = <<>>
    /\ pc = "idle"
    /\ argv = NoArgv
    /\ ins_args = NoInsertCall
    /\ frame = NoFrame
    /\ ins_ret = NotCalled
    /\ exit_status = None

\* the PDF tool at rest, over a 400 x 600 image
ToolIdle ==
    /\ image_readable = TRUE
    /\ original_width = 400
    /\ original_height = 600
    /\ size_call = NoSizeCall
    /\ size_ret = NotCalled
    /\ pos_call = NoPosCall
    /\ pos_ret = NotCalled
    /\ PdfIdle

InitIdle ==
    /\ OllamaIdle
    /\ PdfIdle

(***************************************************************************)
(* PDFImageInserter.calculate_image_size                                   *)
(***************************************************************************)
DEFAULT_WIDTH == 99

DEFAULT_HEIGHT == 127

\* aspect_ratio = original_width / original_height
AspectRatio(ow, oh) == FDiv(FInt(ow), FInt(oh))

\* if scale is not None: scale relative to the original size
ScaledSize(ow, oh, scale) == <<FMul(FInt(ow), scale), FMul(FInt(oh), scale)>>

\* fit_mode == 'stretch': the exact dimensions
StretchSize(width, height) == <<width, height>>

\* FillSize with the smaller factor taken
FillSize_SmallerFactor(ow, oh, width, height) ==
    LET scale_w      == FDiv(width, FInt(ow))
        scale_h      == FDiv(height, FInt(oh))
        scale_factor == FMin(scale_w, scale_h)
    IN  <<FMul(FInt(ow), scale_factor), FMul(FInt(oh), scale_factor)>>

\* fit_mode == 'fill': the larger scaling factor
FillSize(ow, oh, width, height) ==
    LET scale_w      == FDiv(width, FInt(ow))
        scale_h      == FDiv(height, FInt(oh))
        scale_factor == FMax(scale_w, scale_h)
    IN  <<FMul(FInt(ow), scale_factor), FMul(FInt(oh), scale_factor)>>

\* FitSize with the larger factor taken
FitSize_LargerFactor(ow, oh, width, height) ==
    LET scale_w      == FDiv(width, FInt(ow))
        scale_h      == FDiv(height, FInt(oh))
        scale_factor == FMax(scale_w, scale_h)
    IN  <<FMul(FInt(ow), scale_factor), FMul(FInt(oh), scale_factor)>>

\* FitSize with each axis scaled by its own factor
FitSize_PerAxis(ow, oh, width, height) ==
    LET scale_w == FDiv(width, FInt(ow))
        scale_h == FDiv(height, FInt(oh))
    IN  <<FMul(FInt(ow), scale_w), FMul(FInt(oh), scale_h)>>

\* else (fit_mode == 'fit'): the smaller scaling factor
FitSize(ow, oh, width, height) ==
    LET scale_w      == FDiv(width, FInt(ow))
        scale_h      == FDiv(height, FInt(oh))
        scale_factor == FMin(scale_w, scale_h)
    IN  <<FMul(FInt(ow), scale_factor), FMul(FInt(oh), scale_factor)>>

\* BothSize without the 'stretch' case
BothSize_NoStretch(ow, oh, width, height, fit_mode) ==
    IF fit_mode = "fill" THEN FillSize(ow, oh, width, height)
    ELSE FitSize(ow, oh, width, height)

\* if width is not None and height is not None
BothSize(ow, oh, width, height, fit_mode) ==
    IF fit_mode = "stretch" THEN StretchSize(width, height)
    ELSE IF fit_mode = "fill" THEN FillSize(ow, oh, width, height)
    ELSE FitSize(ow, oh, width, height)

\* WidthOnlySize with the height multiplied by the aspect ratio
WidthOnlySize_Mul(ow, oh, width, keep_aspect) ==
    IF keep_aspect THEN <<width, FMul(width, AspectRatio(ow, oh))>>
    ELSE <<width, FInt(oh)>>

\* if width is not None (and height is None)
WidthOnlySize(ow, oh, width, keep_aspect) ==
    IF keep_aspect THEN <<width, FDiv(width, AspectRatio(ow, oh))>>
    ELSE <<width, FInt(oh)>>

\* if height is not None (and width is None)
HeightOnlySize(ow, oh, height, keep_aspect) ==
    IF keep_aspect THEN <<FMul(height, AspectRatio(ow, oh)), height>>
    ELSE <<FInt(ow), height>>

\* the default size if nothing is specified
DefaultSize == <<FInt(DEFAULT_WIDTH), FInt(DEFAULT_HEIGHT)>>

\* CalcImageSize with the scale looked at last
CalcImageSize_ScaleLast(ow, oh, width, height, scale, keep_aspect, fit_mode) ==
    IF ~IsNone(width) /\ ~IsNone(height)
    THEN BothSize(ow, oh, width[1], height[1], fit_mode)
    ELSE IF ~IsNone(width) THEN WidthOnlySize(ow, oh, width[1], keep_aspect)
    ELSE IF ~IsNone(height) THEN HeightOnlySize(ow, oh, height[1], keep_aspect)
    ELSE IF ~IsNone(scale) THEN ScaledSize(ow, oh, scale[1])
    ELSE DefaultSize

\* CalcImageSize falling back to the image's own size
CalcImageSize_DefaultOriginal(ow, oh, width, height, scale, keep_aspect, fit_mode) ==
    IF ~IsNone(scale) THEN ScaledSize(ow, oh, scale[1])
    ELSE IF ~IsNone(width) /\ ~IsNone(height)
    THEN BothSize(ow, oh, width[1], height[1], fit_mode)
    ELSE IF ~IsNone(width) THEN WidthOnlySize(ow, oh, width[1], keep_aspect)
    ELSE IF ~IsNone(height) THEN HeightOnlySize(ow, oh, height[1], keep_aspect)
    ELSE <<FInt(ow), FInt(oh)>>

\* CalcImageSize with 'stretch' also switching the aspect ratio off when one
\* dimension is given
CalcImageSize_StretchLeaks(ow, oh, width, height, scale, keep_aspect, fit_mode) ==
    IF ~IsNone(scale) THEN ScaledSize(ow, oh, scale[1])
    ELSE IF ~IsNone(width) /\ ~IsNone(height)
    THEN BothSize(ow, oh, width[1], height[1], fit_mode)
    ELSE IF ~IsNone(width)
    THEN WidthOnlySize(ow, oh, width[1], keep_aspect /\ fit_mode # "stretch")
    ELSE IF ~IsNone(height)
    THEN HeightOnlySize(ow, oh, height[1], keep_aspect /\ fit_mode # "stretch")
    ELSE DefaultSize

\* The value calculate_image_size returns for an image of ow x oh pixels.
CalcImageSize(ow, oh, width, height, scale, keep_aspect, fit_mode) ==
    IF ~IsNone(scale) THEN ScaledSize(ow, oh, scale[1])
    ELSE IF ~IsNone(width) /\ ~IsNone(height)
    THEN BothSize(ow, oh, width[1], height[1], fit_mode)
    ELSE IF ~IsNone(width) THEN WidthOnlySize(ow, oh, width[1], keep_aspect)
    ELSE IF ~IsNone(height) THEN HeightOnlySize(ow, oh, height[1], keep_aspect)
    ELSE DefaultSize

\* calculate_image_size leaving the default width behind as the width of the
\* image when a width is asked for
calculate_image_size_Caching(width, height, scale, keep_aspect, fit_mode) ==
    /\ size_call' = [width |-> width, height |-> height, scale |-> scale,
                     keep_aspect |-> keep_aspect, fit_mode |-> fit_mode]
    /\ size_ret' =
          IF image_readable
          THEN Returned(CalcImageSize(original_width, original_height,
                                      width, height, scale, keep_aspect,
                                      fit_mode))
          ELSE Raised("PixmapError")
    /\ original_width' = IF image_readable /\ ~IsNone(width)
                         THEN DEFAULT_WIDTH ELSE original_width
    /\ UNCHANGED <<image_readable, original_height, worldVars>>

calculate_image_size(width, height, scale, keep_aspect, fit_mode) ==
    /\ size_call' = [width |-> width, height |-> height, scale |-> scale,
                     keep_aspect |-> keep_aspect, fit_mode |-> fit_mode]
    /\ size_ret' =
          IF image_readable
          THEN Returned(CalcImageSize(original_width, original_height,
                                      width, height, scale, keep_aspect,
                                      fit_mode))
          ELSE Raised("PixmapError")
    /\ UNCHANGED <<imageVars, worldVars>>

(***************************************************************************)
(* Size resolution on its own: an inserter for some image, on which        *)
(* calculate_image_size is called once, with any arguments (one run of the *)
(* tool resolves one size).  The image file is one fitz.Pixmap can decode, *)
(* of some pixel size, or one it cannot decode: the call then raises.      *)
(***************************************************************************)
InitSize ==
    /\ \/ /\ image_readable = TRUE
          /\ \E img \in Images :
                original_width = img[1] /\ original_height = img[2]
       \/ /\ image_readable = FALSE
          /\ original_width = 0
          /\ original_height = 0
    /\ size_call = NoSizeCall
    /\ size_ret = NotCalled
    /\ pos_call = NoPosCall
    /\ pos_ret = NotCalled
    /\ InitIdle

NextSize ==
    /\ size_ret.status = "none"
    /\ \E width \in OptLengths, height \in OptLengths, scale \in OptScales,
          keep_aspect \in BOOLEAN, fit_mode \in FitModes :
           calculate_image_size(width, height, scale, keep_aspect, fit_mode)
    /\ UNCHANGED <<ollamaVars, posVars, ctlVars>>

SpecSize == InitSize /\ [][NextSize]_vars

(***************************************************************************)
(* Size resolution called again and again on one inserter.                 *)
(***************************************************************************)
\* the arguments of the repeated calls
RepeatedCalls ==
    {<<w, h, sc, k, f>> :
        w \in {None, Some(FInt(200)), Some(FInt(15))},
        h \in {None, Some(FInt(200))},
        sc \in {None, Some(FDyadic(1, 1))},
        k \in BOOLEAN, f \in FitModes}

NextRepeat ==
    /\ \E c \in RepeatedCalls :
           calculate_image_size(c[1], c[2], c[3], c[4], c[5])
    /\ UNCHANGED <<ollamaVars, posVars, ctlVars>>

SpecRepeat == InitSize /\ [][NextRepeat]_vars

(***************************************************************************)
(* PDFImageInserter.calculate_position                                     *)
(***************************************************************************)
\* POSITIONS: name -> (is_left, is_top)
POSITIONS ==
    [p \in {"top-left", "top-right", "bottom-left", "bottom-right", "center"} |->
        CASE p = "top-left"     -> <<TRUE, TRUE>>
          [] p = "top-right"    -> <<FALSE, TRUE>>
          [] p = "bottom-left"  -> <<TRUE, FALSE>>
          [] p = "bottom-right" -> <<FALSE, FALSE>>
          [] p = "center"       -> <<None, None>>]

\* position == 'center'
CenterPosition(page_width, page_height, img_width, img_height) ==
    <<FDiv(FSub(page_width, img_width), FInt(2)),
      FDiv(FSub(page_height, img_height), FInt(2))>>

\* CornerPosition with y measured from the top edge of the page
CornerPosition_TopIsMargin(page_width, page_height, img_width, img_height, is_left, is_top, margin) ==
    <<IF is_left THEN margin ELSE FSub(FSub(page_width, img_width), margin),
      IF is_top THEN margin ELSE FSub(FSub(page_height, img_height), margin)>>

\* a corner: x from is_left, y from is_top
CornerPosition(page_width, page_height, img_width, img_height, is_left, is_top, margin) ==
    <<IF is_left THEN margin ELSE FSub(FSub(page_width, img_width), margin),
      IF is_top THEN FSub(FSub(page_height, img_height), margin) ELSE margin>>

\* NamedPosition with the margin taken off the centred origin too
NamedPosition_CenterInset(page_width, page_height, img_width, img_height, position, margin) ==
    IF position = "center"
    THEN LET c == CenterPosition(page_width, page_height, img_width, img_height)
         IN  <<FSub(c[1], margin), FSub(c[2], margin)>>
    ELSE CornerPosition(page_width, page_height, img_width, img_height,
                        POSITIONS[position][1], POSITIONS[position][2], margin)

\* if position in self.POSITIONS
NamedPosition(page_width, page_height, img_width, img_height, position, margin) ==
    IF position = "center"
    THEN CenterPosition(page_width, page_height, img_width, img_height)
    ELSE CornerPosition(page_width, page_height, img_width, img_height,
                        POSITIONS[position][1], POSITIONS[position][2], margin)

\* FallbackPosition with the top-left corner as the default
FallbackPosition_TopLeft(page_width, page_height, img_width, img_height, margin) ==
    <<margin, FSub(FSub(page_height, img_height), margin)>>

\* the default: top-right
FallbackPosition(page_width, page_height, img_width, img_height, margin) ==
    <<FSub(FSub(page_width, img_width), margin),
      FSub(FSub(page_height, img_height), margin)>>

\* CalcPosition with a named position taking priority over coordinates
CalcPosition_NameFirst(page_width, page_height, img_width, img_height, position, x, y, margin) ==
    IF ~IsNone(position) /\ position[1] \in DOMAIN POSITIONS
    THEN NamedPosition(page_width, page_height, img_width, img_height,
                       position[1], margin)
    ELSE IF ~IsNone(x) /\ ~IsNone(y) THEN <<x[1], y[1]>>
    ELSE FallbackPosition(page_width, page_height, img_width, img_height, margin)

\* The value calculate_position returns.
CalcPosition(page_width, page_height, img_width, img_height, position, x, y, margin) ==
    IF ~IsNone(x) /\ ~IsNone(y) THEN <<x[1], y[1]>>
    ELSE IF ~IsNone(position) /\ position[1] \in DOMAIN POSITIONS
    THEN NamedPosition(page_width, page_height, img_width, img_height,
                       position[1], margin)
    ELSE FallbackPosition(page_width, page_height, img_width, img_height, margin)

calculate_position(page_width, page_height, img_width, img_height, position, x, y, margin) ==
    /\ pos_call' = [page_width |-> page_width, page_height |-> page_height,
                    img_width |-> img_width, img_height |-> img_height,
                    position |-> position, x |-> x, y |-> y, margin |-> margin]
    /\ pos_ret' = Returned(CalcPosition(page_width, page_height, img_width,
                                        img_height, position, x, y, margin))
    /\ UNCHANGED <<imageVars, worldVars>>

(***************************************************************************)
(* Position resolution on its own: calculate_position called once, with    *)
(* any arguments.                                                          *)
(***************************************************************************)
\* page.rect sizes in points: A4 and US Letter
Pages == {<<FInt(595), FInt(842)>>, <<FInt(612), FInt(792)>>}

\* resolved image sizes: the small ones, the default, one larger than either
\* page, and the 3 x 11 image fitted into 200 x 200
\* (54.54545454545455, 200.00000000000003)
ImageSizes ==
    {<<FInt(w), FInt(h)>> : w \in 1..MaxLength, h \in 1..MaxLength}
        \cup {DefaultSize, <<FInt(700), FInt(900)>>,
              FitSize(3, 11, FInt(200), FInt(200))}

\* values of --x and --y (argparse type=float, not validated)
Coordinates == {FInt(-50), FInt(0), FInt(100), FInt(1000)}

OptCoordinates == {None} \cup {Some(v) : v \in Coordinates}

\* margin: float = 20
DEFAULT_MARGIN == 20

\* values of --margin (argparse type=float, not validated)
Margins == {FInt(DEFAULT_MARGIN), FInt(0)}

\* the position argument: a known name, no name, or an unknown name
OptPositions == {None, Some("middle")} \cup {Some(p) : p \in DOMAIN POSITIONS}

InitPos ==
    /\ image_readable = TRUE
    /\ original_width = 400
    /\ original_height = 600
    /\ size_call = NoSizeCall
    /\ size_ret = NotCalled
    /\ pos_call = NoPosCall
    /\ pos_ret = NotCalled
    /\ InitIdle

NextPos ==
    /\ pos_ret.status = "none"
    /\ \E page \in Pages, size \in ImageSizes, position \in OptPositions,
          x \in OptCoordinates, y \in OptCoordinates, margin \in Margins :
           calculate_position(page[1], page[2], size[1], size[2], position, x, y, margin)
    /\ UNCHANGED <<ollamaVars, sizeVars, ctlVars>>

SpecPos == InitPos /\ [][NextPos]_vars

(***************************************************************************)
(* PDFImageInserter.insert_image, one step for each external operation and *)
(* each resolver call.  An exception raised in the try block is caught by  *)
(* 'except Exception', which returns False; the finally block then runs.   *)
(***************************************************************************)
\* one external operation: op is "open", "insert_image", "save" or "close"
\* and outcome is "ok" or the exception it raised
IoEvent(op, rect, rotate, opacity, outcome) ==
    [op |-> op, rect |-> rect, rotate |-> rotate, opacity |-> opacity,
     outcome |-> outcome]

\* the try block is left with an exception raised at step
Failed(step) == [frame EXCEPT !.result = Some(FALSE), !.failed = step]

\* insert_image is entered with the arguments a
InsertEnter(a) ==
    /\ ins_args' = a
    /\ frame' = NoFrame
    /\ pc' = "open"

\* self.pdf = fitz.open(str(self.pdf_path))
OpenPdf ==
    /\ pc = "open"
    /\ IF env.pdf_exists /\ env.pdf_openable
       THEN /\ pdf' = "open"
            /\ io' = Append(io, IoEvent("open", <<>>, 0, None, "ok"))
            /\ frame' = frame
            /\ pc' = "page"
       ELSE /\ pdf' = pdf
            /\ io' = Append(io, IoEvent("open", <<>>, 0, None, "Error"))
            /\ frame' = Failed("open")
            /\ pc' = "finally"
    /\ UNCHANGED <<ollamaVars, imageVars, sizeVars, posVars, env, argv, ins_args, ins_ret,
                   exit_status>>

\* CheckPage without the test page_num < 0: a negative index counts from the
\* last page
CheckPage_NegativeFromEnd ==
    /\ pc = "page"
    /\ IF ins_args.page_num >= Len(env.pages) \/ -ins_args.page_num > Len(env.pages)
       THEN /\ frame' = [frame EXCEPT !.result = Some(FALSE), !.failed = "page"]
            /\ pc' = "finally"
       ELSE /\ frame' = [frame EXCEPT !.page =
                           IF ins_args.page_num < 0
                           THEN env.pages[Len(env.pages) + 1 + ins_args.page_num]
                           ELSE env.pages[ins_args.page_num + 1]]
            /\ pc' = "size"
    /\ UNCHANGED <<ollamaVars, imageVars, sizeVars, posVars, worldVars, argv, ins_args,
                   ins_ret, exit_status>>

\* the page number check, then page = self.pdf[page_num] and its rect
CheckPage ==
    /\ pc = "page"
    /\ IF ins_args.page_num < 0 \/ ins_args.page_num >= Len(env.pages)
       THEN /\ frame' = [frame EXCEPT !.result = Some(FALSE), !.failed = "page"]
            /\ pc' = "finally"
       ELSE /\ frame' = [frame EXCEPT !.page = env.pages[ins_args.page_num + 1]]
            /\ pc' = "size"
    /\ UNCHANGED <<ollamaVars, imageVars, sizeVars, posVars, worldVars, argv, ins_args,
                   ins_ret, exit_status>>

\* ResolveSize going on with the default size when the image cannot be read
ResolveSize_DefaultOnError ==
    /\ pc = "size"
    /\ size_call' = [width |-> ins_args.width, height |-> ins_args.height,
                     scale |-> ins_args.scale,
                     keep_aspect |-> ins_args.keep_aspect,
                     fit_mode |-> ins_args.fit_mode]
    /\ size_ret' =
          IF image_readable
          THEN Returned(CalcImageSize(original_width, original_height,
                                      ins_args.width, ins_args.height,
                                      ins_args.scale, ins_args.keep_aspect,
                                      ins_args.fit_mode))
          ELSE Returned(DefaultSize)
    /\ frame' = IF image_readable THEN frame ELSE Failed("size")
    /\ pc' = "position"
    /\ UNCHANGED <<ollamaVars, imageVars, worldVars, posVars, argv, ins_args, ins_ret,
                   exit_status>>

\* img_width, img_height = self.calculate_image_size(...)
ResolveSize ==
    /\ pc = "size"
    /\ calculate_image_size(ins_args.width, ins_args.height, ins_args.scale,
                            ins_args.keep_aspect, ins_args.fit_mode)
    /\ IF size_ret'.status = "returned"
       THEN frame' = frame /\ pc' = "position"
       ELSE frame' = Failed("size") /\ pc' = "finally"
    /\ UNCHANGED <<ollamaVars, posVars, argv, ins_args, ins_ret, exit_status>>

\* PositionSizeArgs taking the width and the height asked for, when given
PositionSizeArgs_Requested(a, resolved) ==
    <<IF IsNone(a.width) THEN resolved[1] ELSE a.width[1],
      IF IsNone(a.height) THEN resolved[2] ELSE a.height[1]>>

\* img_width=img_width, img_height=img_height: the size passed on to
\* calculate_position
PositionSizeArgs(a, resolved) == resolved

\* x_pos, y_pos = self.calculate_position(...)
ResolvePosition ==
    /\ pc = "position"
    /\ LET size == PositionSizeArgs(ins_args, size_ret.value)
       IN  calculate_position(frame.page[1], frame.page[2], size[1], size[2],
                              ins_args.position, ins_args.x, ins_args.y,
                              ins_args.margin)
    /\ pc' = "insert"
    /\ UNCHANGED <<ollamaVars, sizeVars, argv, ins_args, frame, ins_ret, exit_status>>

\* fitz.Rect(x_pos, y_pos, x_pos + img_width, y_pos + img_height)
InsertRect(x_pos, y_pos, img_width, img_height) ==
    <<x_pos, y_pos, FAdd(x_pos, img_width), FAdd(y_pos, img_height)>>

\* the rectangle of this call, from the resolved position and size
CallRect ==
    InsertRect(pos_ret.value[1], pos_ret.value[2],
               size_ret.value[1], size_ret.value[2])

\* opacity != 1.0
OpacityGiven(a) == ~FEq(a.opacity, FInt(1))

\* SinkInsert with 'except Exception' in the place of 'except TypeError'
SinkInsert_RetryAnyError ==
    /\ pc = "insert"
    /\ IF OpacityGiven(ins_args)
       THEN \E outcome \in {"ok", "TypeError", "Error"} :
              /\ io' = Append(io, IoEvent("insert_image", CallRect,
                                          ins_args.rotation,
                                          Some(ins_args.opacity), outcome))
              /\ frame' = frame
              /\ pc' = IF outcome = "ok" THEN "save" ELSE "fallback"
       ELSE \E outcome \in {"ok", "Error"} :
              /\ io' = Append(io, IoEvent("insert_image", CallRect,
                                          ins_args.rotation, None, outcome))
              /\ frame' = IF outcome = "Error" THEN Failed("insert") ELSE frame
              /\ pc' = IF outcome = "ok" THEN "save" ELSE "finally"
    /\ UNCHANGED <<ollamaVars, imageVars, sizeVars, posVars, env, pdf, argv, ins_args,
                   ins_ret, exit_status>>

\* page.insert_image(**insert_params, opacity=opacity) when opacity != 1.0,
\* page.insert_image(**insert_params) otherwise; a TypeError of the former
\* is caught on the spot
SinkInsert ==
    /\ pc = "insert"
    /\ IF OpacityGiven(ins_args)
       THEN \E outcome \in {"ok", "TypeError", "Error"} :
              /\ io' = Append(io, IoEvent("insert_image", CallRect,
                                          ins_args.rotation,
                                          Some(ins_args.opacity), outcome))
              /\ frame' = IF outcome = "Error" THEN Failed("insert") ELSE frame
              /\ pc' = CASE outcome = "ok" -> "save"
                         [] outcome = "TypeError" -> "fallback"
                         [] outcome = "Error" -> "finally"
       ELSE \E outcome \in {"ok", "Error"} :
              /\ io' = Append(io, IoEvent("insert_image", CallRect,
                                          ins_args.rotation, None, outcome))
              /\ frame' = IF outcome = "Error" THEN Failed("insert") ELSE frame
              /\ pc' = IF outcome = "ok" THEN "save" ELSE "finally"
    /\ UNCHANGED <<ollamaVars, imageVars, sizeVars, posVars, env, pdf, argv, ins_args,
                   ins_ret, exit_status>>

\* except TypeError: page.insert_image(**insert_params)
SinkFallback ==
    /\ pc = "fallback"
    /\ \E outcome \in {"ok", "Error"} :
          /\ io' = Append(io, IoEvent("insert_image", CallRect,
                                      ins_args.rotation, None, outcome))
          /\ frame' = IF outcome = "Error" THEN Failed("insert") ELSE frame
          /\ pc' = IF outcome = "ok" THEN "save" ELSE "finally"
    /\ UNCHANGED <<ollamaVars, imageVars, sizeVars, posVars, env, pdf, argv, ins_args,
                   ins_ret, exit_status>>

\* self.pdf.save(str(self.output_path)), then return True
SavePdf ==
    /\ pc = "save"
    /\ \E outcome \in {"ok", "Error"} :
          /\ io' = Append(io, IoEvent("save", <<>>, 0, None, outcome))
          /\ frame' = IF outcome = "ok"
                      THEN [frame EXCEPT !.result = Some(TRUE)]
                      ELSE Failed("save")
    /\ pc' = "finally"
    /\ UNCHANGED <<ollamaVars, imageVars, sizeVars, posVars, env, pdf, argv, ins_args,
                   ins_ret, exit_status>>

\* finally: if self.pdf: self.pdf.close(); a document is true when it has
\* pages
Finally ==
    /\ pc = "finally"
    /\ IF pdf = "open" /\ Len(env.pages) > 0
       THEN /\ pdf' = "closed"
            /\ io' = Append(io, IoEvent("close", <<>>, 0, None, "ok"))
       ELSE UNCHANGED <<pdf, io>>
    /\ ins_ret' = Returned(frame.result[1])
    /\ pc' = "returned"
    /\ UNCHANGED <<ollamaVars, imageVars, sizeVars, posVars, env, argv, ins_args, frame,
                   exit_status>>

\* the steps of a call of insert_image
InsertSteps ==
    \/ OpenPdf
    \/ CheckPage
    \/ ResolveSize
    \/ ResolvePosition
    \/ SinkInsert
    \/ SinkFallback
    \/ SavePdf
    \/ Finally

(***************************************************************************)
(* insert_image on its own: one call, with any of the arguments below, on  *)
(* an inserter whose PDF and image are as one of the environments below.   *)
(***************************************************************************)
\* width, height, scale, keep_aspect, fit_mode: the default size, a box in
\* each mode, a width alone, and a scale next to a width
SizeDirectives ==
    {<<None, None, None, TRUE, "fit">>,
     <<Some(FInt(200)), Some(FInt(200)), None, TRUE, "fit">>,
     <<Some(FInt(200)), Some(FInt(200)), None, TRUE, "fill">>,
     <<Some(FInt(200)), Some(FInt(200)), None, FALSE, "stretch">>,
     <<Some(FInt(200)), None, None, TRUE, "fit">>,
     <<Some(FInt(15)), None, Some(FDyadic(1, 1)), TRUE, "fit">>}

\* position, x, y, margin
PlaceDirectives ==
    {<<Some("top-right"), None, None, FInt(20)>>,
     <<Some("center"), None, None, FInt(20)>>,
     <<Some("bottom-left"), None, None, FInt(0)>>,
     <<None, None, None, FInt(0)>>,
     <<Some("center"), Some(FInt(100)), Some(FInt(1000)), FInt(20)>>,
     <<Some("middle"), Some(FInt(100)), None, FInt(20)>>}

\* opacity: the default and a half
Opacities == {FInt(1), FDyadic(1, 1)}

Rotations == {0, 90}

\* page_num: the first page, the second, and one before the first
PageNums == {0, 1, -1}

InsertCalls ==
    {[page_num |-> n, position |-> p[1], x |-> p[2], y |-> p[3],
      width |-> d[1], height |-> d[2], scale |-> d[3], margin |-> p[4],
      keep_aspect |-> d[4], opacity |-> o, rotation |-> r, fit_mode |-> d[5]] :
        n \in PageNums, p \in PlaceDirectives, d \in SizeDirectives,
        o \in Opacities, r \in Rotations}

\* a two-page US Letter PDF
LetterEnv == [PlainEnv EXCEPT !.pages = <<<<FInt(612), FInt(792)>>,
                                          <<FInt(612), FInt(792)>>>>]

\* a file that is not a PDF
BrokenPdfEnv == [PlainEnv EXCEPT !.pdf_openable = FALSE, !.pages = <<>>]

\* a PDF without pages
EmptyPdfEnv == [PlainEnv EXCEPT !.pages = <<>>]

\* the image (readable, width, height) and the environment of a call
InsertWorlds ==
    {<<TRUE, 400, 600, PlainEnv>>, <<TRUE, 3, 11, PlainEnv>>,
     <<FALSE, 0, 0, PlainEnv>>, <<TRUE, 400, 600, LetterEnv>>,
     <<TRUE, 400, 600, BrokenPdfEnv>>, <<TRUE, 400, 600, EmptyPdfEnv>>}

InitInsert ==
    /\ \E w \in InsertWorlds :
          /\ image_readable = w[1]
          /\ original_width = w[2]
          /\ original_height = w[3]
          /\ env = w[4]
    /\ size_call = NoSizeCall
    /\ size_ret = NotCalled
    /\ pos_call = NoPosCall
    /\ pos_ret = NotCalled
    /\ pdf = "None"
    /\ io = <<>>
    /\ pc = "idle"
    /\ argv = NoArgv
    /\ ins_args = NoInsertCall
    /\ frame = NoFrame
    /\ ins_ret = NotCalled
    /\ exit_status = None
    /\ OllamaIdle

\* inserter.insert_image(...)
insert_image ==
    /\ pc = "idle"
    /\ \E a \in InsertCalls : InsertEnter(a)
    /\ UNCHANGED <<ollamaVars, imageVars, sizeVars, posVars, worldVars, argv, ins_ret,
                   exit_status>>

NextInsert == insert_image \/ InsertSteps

SpecInsert == InitInsert /\ [][NextInsert]_vars

(***************************************************************************)
(* main: the command line, up to the call of insert_image or to an early   *)
(* exit, in one step; then the steps of insert_image; then the exit.       *)
(***************************************************************************)
\* choices=[0, 90, 180, 270] of --rotation
ROTATION_CHOICES == {0, 90, 180, 270}

\* args.position: --position has the default 'top-right'
ArgPosition(av) == IF IsNone(av.position) THEN Some("top-right") ELSE av.position

\* not 0.0 <= args.opacity <= 1.0, negated
OpacityValid(o) == FLe(FInt(0), o) /\ FLe(o, FInt(1))

\* one of --x, --y is given
CoordinateGiven(av) == ~IsNone(av.x) \/ ~IsNone(av.y)

\* position: None when coordinates are given, args.position otherwise
MainPosition(av) == IF CoordinateGiven(av) THEN None ELSE ArgPosition(av)

\* fit_mode: --no-aspect turns the default 'fit' into 'stretch'
MainFitMode(av) ==
    IF av.no_aspect /\ av.fit_mode = "fit" THEN "stretch" ELSE av.fit_mode

\* inserter.validate_files()
validate_files(e) == e.pdf_exists /\ e.image_exists /\ e.outdir_exists

\* the arguments main passes to insert_image
MainInsertArgs(av) ==
    [page_num |-> av.page, position |-> MainPosition(av), x |-> av.x,
     y |-> av.y, width |-> av.width, height |-> av.height,
     scale |-> av.scale, margin |-> av.margin, keep_aspect |-> ~av.no_aspect,
     opacity |-> av.opacity, rotation |-> av.rotation,
     fit_mode |-> MainFitMode(av)]

\* MainRejects without the opacity check
MainRejects_NoOpacityCheck(av, e) ==
    IF ~e.fitz THEN Some(1)
    ELSE IF av.rotation \notin ROTATION_CHOICES THEN Some(2)
    ELSE IF ~av.paths THEN Some(1)
    ELSE IF CoordinateGiven(av) /\ (IsNone(av.x) \/ IsNone(av.y)) THEN Some(1)
    ELSE None

\* the status main exits with before it looks at any file, if it does:
\* PyMuPDF missing (1), an argparse error (2), paths missing (1), opacity
\* out of range (1), one coordinate without the other (1)
MainRejects(av, e) ==
    IF ~e.fitz THEN Some(1)
    ELSE IF av.rotation \notin ROTATION_CHOICES THEN Some(2)
    ELSE IF ~av.paths THEN Some(1)
    ELSE IF ~OpacityValid(av.opacity) THEN Some(1)
    ELSE IF CoordinateGiven(av) /\ (IsNone(av.x) \/ IsNone(av.y)) THEN Some(1)
    ELSE None

\* main(), from its start to sys.exit or to the call of insert_image
main ==
    /\ pc = "main"
    /\ IF argv.setup
       THEN \* '--setup' in sys.argv: setup_environment(), nothing is parsed
            /\ \E success \in BOOLEAN :
                  /\ io' = Append(io, IoEvent("setup", <<>>, 0, None,
                                   IF success THEN "ok" ELSE "Error"))
                  /\ exit_status' = Some(IF success THEN 0 ELSE 1)
            /\ pc' = "exited"
            /\ UNCHANGED <<ins_args, frame>>
       ELSE IF ~IsNone(MainRejects(argv, env))
       THEN /\ exit_status' = MainRejects(argv, env)
            /\ pc' = "exited"
            /\ UNCHANGED <<io, ins_args, frame>>
       ELSE /\ io' = Append(io, IoEvent("validate_files", <<>>, 0, None,
                              IF validate_files(env) THEN "ok" ELSE "Error"))
            /\ IF validate_files(env)
               THEN InsertEnter(MainInsertArgs(argv)) /\ exit_status' = None
               ELSE /\ exit_status' = Some(1)
                    /\ pc' = "exited"
                    /\ UNCHANGED <<ins_args, frame>>
    /\ UNCHANGED <<ollamaVars, imageVars, sizeVars, posVars, env, pdf, argv, ins_ret>>

\* sys.exit(0 if success else 1)
main_exit ==
    /\ pc = "returned"
    /\ exit_status' = Some(IF ins_ret.value THEN 0 ELSE 1)
    /\ pc' = "exited"
    /\ UNCHANGED <<ollamaVars, imageVars, sizeVars, posVars, worldVars, argv, ins_args,
                   frame, ins_ret>>

(***************************************************************************)
(* One run of the tool from the command line.                              *)
(***************************************************************************)
\* --width, --height, --scale: none, a box, a width with a scale, a scale,
\* a box with a scale
ArgSizes ==
    {<<None, None, None>>,
     <<Some(FInt(200)), Some(FInt(200)), None>>,
     <<Some(FInt(200)), None, Some(FDyadic(1, 1))>>,
     <<None, None, Some(FDyadic(1, 1))>>,
     <<Some(FInt(15)), Some(FInt(200)), Some(FDyadic(1, 1))>>}

\* --x, --y: none, both, one
ArgCoordinates ==
    {<<None, None>>, <<Some(FInt(100)), Some(FInt(200))>>,
     <<Some(FInt(100)), None>>}

\* --opacity (type=float): 1.0, 0.5, 1.5 and -0.5
ArgOpacities == {FInt(1), FDyadic(1, 1), FDyadic(3, 1), FDyadic(-1, 1)}

\* --rotation (type=int): two of the choices and one that is not
ArgRotations == {0, 90, 45}

\* --position: not given, or given
ArgPositions == {None, Some("center")}

\* --page (type=int): the first page, the second, and one before the first
ArgPages == {0, 1, -1}

Argvs ==
    {[setup |-> su, paths |-> pa, page |-> pg, position |-> po,
      x |-> c[1], y |-> c[2], width |-> sz[1], height |-> sz[2],
      scale |-> sz[3], margin |-> FInt(DEFAULT_MARGIN), fit_mode |-> fm,
      no_aspect |-> na, opacity |-> op, rotation |-> ro] :
        su \in BOOLEAN, pa \in BOOLEAN, pg \in ArgPages, po \in ArgPositions,
        c \in ArgCoordinates, sz \in ArgSizes, fm \in FitModes,
        na \in BOOLEAN, op \in ArgOpacities, ro \in ArgRotations}

\* the image (readable, width, height) and the installation of a run:
\* everything in place, PyMuPDF missing, the PDF missing, an image that is
\* not an image
MainWorlds ==
    {<<TRUE, 400, 600, PlainEnv>>,
     <<TRUE, 400, 600, [PlainEnv EXCEPT !.fitz = FALSE]>>,
     <<TRUE, 400, 600, [PlainEnv EXCEPT !.pdf_exists = FALSE,
                                        !.pdf_openable = FALSE,
                                        !.pages = <<>>]>>,
     <<FALSE, 0, 0, PlainEnv>>}

InitMain ==
    /\ \E w \in MainWorlds :
          /\ image_readable = w[1]
          /\ original_width = w[2]
          /\ original_height = w[3]
          /\ env = w[4]
    /\ argv \in Argvs
    /\ size_call = NoSizeCall
    /\ size_ret = NotCalled
    /\ pos_call = NoPosCall
    /\ pos_ret = NotCalled
    /\ pdf = "None"
    /\ io = <<>>
    /\ pc = "main"
    /\ ins_args = NoInsertCall
    /\ frame = NoFrame
    /\ ins_ret = NotCalled
    /\ exit_status = None
    /\ OllamaIdle

NextMain == main \/ InsertSteps \/ main_exit

SpecMain == InitMain /\ [][NextMain]_vars

(***************************************************************************)
(* Text.  A Python str is a sequence of one-character strings, so that     *)
(* find, slicing, strip, upper and split can be computed as Python does.   *)
(***************************************************************************)
Whitespace == {" ", "\t", "\n"}

LowerCase ==
    <<"a", "b", "c", "d", "e", "f", "g", "h", "i", "j", "k", "l", "m",
      "n", "o", "p", "q", "r", "s", "t", "u", "v", "w", "x", "y", "z">>

UpperCase ==
    <<"A", "B", "C", "D", "E", "F", "G", "H", "I", "J", "K", "L", "M",
      "N", "O", "P", "Q", "R", "S", "T", "U", "V", "W", "X", "Y", "Z">>

UpperChar(c) ==
    IF \E i \in 1..Len(LowerCase) : LowerCase[i] = c
    THEN UpperCase[CHOOSE i \in 1..Len(LowerCase) : LowerCase[i] = c]
    ELSE c

\* s.upper()
Upper(s) == [i \in 1..Len(s) |-> UpperChar(s[i])]

\* s[a:b] for a >= 0 and b >= 0
Slice(s, a, b) ==
    IF a >= Len(s) \/ b <= a
    THEN <<>>
    ELSE SubSeq(s, a + 1, IF b < Len(s) THEN b ELSE Len(s))

\* s[a:] for a >= 0
SliceFrom(s, a) == Slice(s, a, Len(s))

\* sub occurs in s at the 0-based offset i
StartsAt(s, sub, i) ==
    /\ i + Len(sub) <= Len(s)
    /\ SubSeq(s, i + 1, i + Len(sub)) = sub

\* s.find(sub): the lowest offset of sub in s, -1 if there is none
Find(s, sub) ==
    IF \E i \in 0..Len(s) : StartsAt(s, sub, i)
    THEN CHOOSE i \in 0..Len(s) :
             /\ StartsAt(s, sub, i)
             /\ \A j \in 0..(i - 1) : ~StartsAt(s, sub, j)
    ELSE -1

\* sub in s
Contains(s, sub) == Find(s, sub) >= 0

SetMin(S) == CHOOSE x \in S : \A y \in S : x <= y

SetMax(S) == CHOOSE x \in S : \A y \in S : y <= x

\* s.strip()
Strip(s) ==
    LET inked == {i \in 1..Len(s) : s[i] \notin Whitespace}
    IN  IF inked = {} THEN <<>> ELSE SubSeq(s, SetMin(inked), SetMax(inked))

\* s.split(sep) for a one-character sep
RECURSIVE SplitOn(_, _)
SplitOn(s, sep) ==
    LET i == Find(s, <<sep>>)
    IN  IF i < 0
        THEN <<s>>
        ELSE <<SubSeq(s, 1, i)>> \o SplitOn(SubSeq(s, i + 2, Len(s)), sep)

\* s.split(): the maximal runs of characters that are not whitespace
RECURSIVE SplitWhitespace(_)
SplitWhitespace(s) ==
    LET inked == {i \in 1..Len(s) : s[i] \notin Whitespace}
    IN  IF inked = {}
        THEN <<>>
        ELSE LET first == SetMin(inked)
                 gaps == {i \in first..Len(s) : s[i] \in Whitespace}
                 stop == IF gaps = {} THEN Len(s) + 1 ELSE SetMin(gaps)
             IN  <<SubSeq(s, first, stop - 1)>>
                     \o SplitWhitespace(SubSeq(s, stop, Len(s)))

\* "\n".join(lines)
RECURSIVE JoinLines(_)
JoinLines(lines) ==
    IF lines = <<>> THEN <<>>
    ELSE IF Len(lines) = 1 THEN lines[1]
    ELSE lines[1] \o <<"\n">> \o JoinLines(Tail(lines))

(***************************************************************************)
(* get_ollama_gpu_info: the parse of `ollama ps`.                          *)
(***************************************************************************)
PROCESSOR == <<"P", "R", "O", "C", "E", "S", "S", "O", "R">>

CONTEXT == <<"C", "O", "N", "T", "E", "X", "T">>

GPU == <<"G", "P", "U">>

CPU == <<"C", "P", "U">>

\* the GPU/CPU test both strategies apply to the PROCESSOR value of a row
ProcessorSeen(info, processor) ==
    IF Contains(Upper(processor), GPU)
    THEN [info EXCEPT !.gpu_in_use = TRUE, !.gpu_layers = processor]
    ELSE IF Contains(Upper(processor), CPU)
         THEN [info EXCEPT !.gpu_layers = processor]
         ELSE info

\* the PROCESSOR value the fixed-column strategy reads from a row
FixedColumnProcessor(line, processor_start, context_start) ==
    IF context_start >= 0
    THEN Strip(Slice(line, processor_start, context_start))
    ELSE Strip(SliceFrom(line, processor_start))

\* the fixed-column strategy over the data rows
RECURSIVE FixedColumnRows(_, _, _, _)
FixedColumnRows(info, rows, processor_start, context_start) ==
    IF rows = <<>>
    THEN info
    ELSE LET line == Head(rows)
             seen == IF Strip(line) # <<>>
                     THEN ProcessorSeen(info,
                              FixedColumnProcessor(line, processor_start,
                                                   context_start))
                     ELSE info
         IN  FixedColumnRows(seen, Tail(rows), processor_start, context_start)

\* the whitespace-split strategy over the data rows
RECURSIVE SplitRows(_, _)
SplitRows(info, rows) ==
    IF rows = <<>>
    THEN info
    ELSE LET line == Head(rows)
             parts == SplitWhitespace(line)
             seen == IF Strip(line) # <<>> /\ Len(parts) >= 4
                     THEN ProcessorSeen(info, parts[4])
                     ELSE info
         IN  SplitRows(seen, Tail(rows))

\* output.split('\n') of the stripped stdout
PsLines(stdout) == SplitOn(Strip(stdout), "\n")

\* the strategies the parse of stdout goes through, in order
PsStrategies_Both(stdout) ==
    LET lines == PsLines(stdout)
    IN  IF Len(lines) > 1
        THEN IF Find(lines[1], PROCESSOR) >= 0
             THEN IF FixedColumnRows(NoGpuInfo, Tail(lines),
                                     Find(lines[1], PROCESSOR),
                                     Find(lines[1], CONTEXT)) = NoGpuInfo
                  THEN <<"fixed-column", "whitespace-split">>
                  ELSE <<"fixed-column">>
             ELSE <<"whitespace-split">>
        ELSE <<>>

PsStrategies(stdout) ==
    LET lines == PsLines(stdout)
    IN  IF Len(lines) > 1
        THEN IF Find(lines[1], PROCESSOR) >= 0
             THEN <<"fixed-column">>
             ELSE <<"whitespace-split">>
        ELSE <<>>

\* one strategy applied to the data rows
ApplyStrategy(info, strategy, lines) ==
    IF strategy = "fixed-column"
    THEN FixedColumnRows(info, Tail(lines), Find(lines[1], PROCESSOR),
                         Find(lines[1], CONTEXT))
    ELSE SplitRows(info, Tail(lines))

RECURSIVE ApplyStrategies(_, _, _)
ApplyStrategies(info, strategies, lines) ==
    IF strategies = <<>>
    THEN info
    ELSE ApplyStrategies(ApplyStrategy(info, Head(strategies), lines),
                         Tail(strategies), lines)

\* benchmarks/gpu_info.py: the dict after the `ollama ps` block
ParsePs(info, ps) ==
    IF ps.returncode = 0
    THEN ApplyStrategies(info, PsStrategies(ps.stdout), PsLines(ps.stdout))
    ELSE info

\* ollama_benchmark.py: the dict after the `ollama ps` block, which only
\* splits on whitespace
ScriptParsePs(info, ps) ==
    IF ps.returncode = 0 /\ Len(PsLines(ps.stdout)) > 1
    THEN SplitRows(info, Tail(PsLines(ps.stdout)))
    ELSE info

\* the platform checks that follow the parse
PlatformGpu(info, found) ==
    IF found # ""
    THEN [info EXCEPT !.gpu_available = TRUE, !.details = found]
    ELSE info

\* benchmarks.gpu_info.get_ollama_gpu_info()
GpuInfo(ps, found) ==
    IF ps.raises
    THEN [NoGpuInfo EXCEPT !.error = Some("FileNotFoundError")]
    ELSE PlatformGpu(ParsePs(NoGpuInfo, ps), found)

\* ollama_benchmark.get_ollama_gpu_info()
ScriptGpuInfo(ps, found) ==
    IF ps.raises
    THEN [NoGpuInfo EXCEPT !.error = Some("FileNotFoundError")]
    ELSE PlatformGpu(ScriptParsePs(NoGpuInfo, ps), found)

(***************************************************************************)
(* `ollama ps` outputs: a header and up to MaxRows data rows.              *)
(***************************************************************************)
MaxRows == 2

\* the header of the current format
HeaderContext ==
    <<"N", "A", "M", "E", " ", " ", "I", "D", " ", " ", "S", "I", "Z", "E",
      " ", " ", " ", " ", "P", "R", "O", "C", "E", "S", "S", "O", "R", " ",
      " ", " ", " ", " ", " ", " ", " ", "C", "O", "N", "T", "E", "X", "T",
      " ", " ", "U", "N", "T", "I", "L">>

\* the header of the format before the CONTEXT column
HeaderUntil ==
    <<"N", "A", "M", "E", " ", " ", "I", "D", " ", " ", "S", "I", "Z", "E",
      " ", " ", " ", " ", "P", "R", "O", "C", "E", "S", "S", "O", "R", " ",
      " ", " ", " ", " ", " ", " ", " ", "U", "N", "T", "I", "L">>

\* a header without the word PROCESSOR
HeaderOther ==
    <<"N", "A", "M", "E", " ", " ", "I", "D", " ", " ", "S", "I", "Z", "E",
      " ", " ", " ", " ", "P", "R", "O", "C", " ", " ", " ", " ", " ", " ",
      " ", " ", " ", " ", " ", " ", " ", "U", "N", "T", "I", "L">>

\* a model loaded on the GPU
RowGpu ==
    <<"m", ":", "7", "b", " ", " ", "6", "5", " ", " ", "5", ".", "1", " ",
      "G", "B", " ", " ", "1", "0", "0", "%", " ", "G", "P", "U", " ", " ",
      " ", " ", " ", " ", " ", " ", " ", "4", "0", "9", "6", " ", " ", " ",
      " ", " ", "s", "o", "o", "n">>

\* a model loaded on the CPU
RowCpu ==
    <<"q", ":", "1", "b", " ", " ", "1", "7", " ", " ", "1", ".", "0", " ",
      "G", "B", " ", " ", "1", "0", "0", "%", " ", "C", "P", "U", " ", " ",
      " ", " ", " ", " ", " ", " ", " ", "4", "0", "9", "6", " ", " ", " ",
      " ", " ", "s", "o", "o", "n">>

\* a model split between CPU and GPU
RowMixed ==
    <<"g", ":", "2", "0", " ", " ", "a", "9", " ", " ", "1", "4", " ", "G",
      "B", " ", " ", " ", "4", "8", "%", "/", "5", "2", "%", " ", "C", "P",
      "U", "/", "G", "P", "U", " ", " ", "8", "1", "9", "2", " ", " ", " ",
      " ", " ", "s", "o", "o", "n">>

\* a row that spells gpu in lower case
RowLower ==
    <<"x", ":", "1", "b", " ", " ", "2", "2", " ", " ", "2", ".", "0", " ",
      "G", "B", " ", " ", "1", "0", "0", "%", " ", "g", "p", "u", " ", " ",
      " ", " ", " ", " ", " ", " ", " ", "4", "0", "9", "6", " ", " ", " ",
      " ", " ", "s", "o", "o", "n">>

\* a row of four fields that are not aligned with the header
RowPlainGpu ==
    <<"m", " ", "6", "5", " ", "5", "G", "B", " ", "G", "P", "U">>

\* the same for the CPU
RowPlainCpu ==
    <<"q", " ", "1", "7", " ", "1", "G", "B", " ", "C", "P", "U">>

\* a blank row
RowBlank ==
    <<" ", " ">>


Headers == {HeaderContext, HeaderUntil, HeaderOther}

Rows == {RowGpu, RowCpu, RowMixed, RowLower, RowPlainGpu, RowPlainCpu, RowBlank}

RowLists == UNION {[1..n -> Rows] : n \in 0..MaxRows}

\* what the command prints: the lines, each ended by a newline
PsStdout(header, rows) == JoinLines(<<header>> \o rows) \o <<"\n">>

\* what running `ollama ps` can do: print a table and exit with 0, exit with
\* an error, or not start at all
PsOutcomes ==
    {[raises |-> FALSE, returncode |-> 0, stdout |-> PsStdout(h, r)] :
        h \in Headers, r \in RowLists}
    \cup {NoPs,
          [raises |-> FALSE, returncode |-> 1, stdout |-> <<>>],
          [raises |-> FALSE, returncode |-> 1,
           stdout |-> PsStdout(HeaderContext, <<RowGpu>>)],
          [raises |-> TRUE, returncode |-> 0, stdout |-> <<>>]}

\* the GPU backends the platform checks can name
Backends == {"", "Apple Silicon (Metal)", "AMD ROCm"}

\* the strategies a call went through
StrategiesOf(ps) ==
    IF ps.raises \/ ps.returncode # 0 THEN <<>> ELSE PsStrategies(ps.stdout)

\* benchmarks.gpu_info.get_ollama_gpu_info()
get_ollama_gpu_info ==
    /\ gpu_call.fn = "none"
    /\ gpu_call' = [fn |-> "benchmarks.gpu_info",
                    strategies |-> StrategiesOf(ps_out)]
    /\ gpu_info' = GpuInfo(ps_out, backend)
    /\ UNCHANGED <<ps_out, backend, benchVars, toolVars>>

\* ollama_benchmark.get_ollama_gpu_info()
ollama_benchmark_get_ollama_gpu_info ==
    /\ gpu_call.fn = "none"
    /\ gpu_call' = [fn |-> "ollama_benchmark",
                    strategies |-> IF ps_out.raises \/ ps_out.returncode # 0
                                      \/ Len(PsLines(ps_out.stdout)) <= 1
                                   THEN <<>>
                                   ELSE <<"whitespace-split">>]
    /\ gpu_info' = ScriptGpuInfo(ps_out, backend)
    /\ UNCHANGED <<ps_out, backend, benchVars, toolVars>>

InitGpu ==
    /\ ps_out \in PsOutcomes
    /\ backend \in Backends
    /\ gpu_call = NoGpuCall
    /\ gpu_info = NoGpuInfo
    /\ BenchIdle
    /\ ToolIdle

NextGpu == get_ollama_gpu_info \/ ollama_benchmark_get_ollama_gpu_info

SpecGpu == InitGpu /\ [][NextGpu]_vars

(***************************************************************************)
(* benchmark_model and the report.                                         *)
(***************************************************************************)
\* the integer nearest to the dyadic number d, ties to even
DRoundInt(d) ==
    IF d.man = <<>> THEN <<>>
    ELSE IF d.exp >= 0 THEN BShl(d.man, d.exp)
    ELSE LET k    == -d.exp
             q    == BShr(d.man, k)
             half == BBit(d.man, k - 1) = 1
             low  == ~BLowZero(d.man, k - 1)
             up   == half /\ (low \/ BBit(q, 0) = 1)
         IN  IF up THEN BAdd(q, <<1>>) ELSE q

\* round(x, 2): the float nearest to x rounded to two decimals
Round2(x) ==
    IF FIsZero(x) THEN x
    ELSE FDiv(FCanon(x.sgn, DRoundInt(DMul(x, FInt(100))), 0), FInt(100))

\* the float 0.15
FIRST_TOKEN_SHARE == FDiv(FInt(15), FInt(100))

\* the result dict of a run that did not succeed
FailedResult(model_name, status, error) ==
    [model |-> model_name, status |-> status, first_token_time_ms |-> None,
     tokens_per_second |-> None, total_time_s |-> None, token_count |-> None,
     error |-> Some(error)]

\* the result dict built from a finished subprocess
TimedResult(model_name, stdout, total_time) ==
    LET token_count == Len(SplitWhitespace(stdout))
        first_token_time == FMul(total_time, FIRST_TOKEN_SHARE)
        tokens_per_second ==
            IF FLt(FInt(0), total_time)
            THEN FDiv(FInt(token_count), total_time)
            ELSE FInt(0)
    IN  [model |-> model_name, status |-> "success",
         first_token_time_ms |-> Some(Round2(FMul(first_token_time, FInt(1000)))),
         tokens_per_second |-> Some(Round2(tokens_per_second)),
         total_time_s |-> Some(Round2(total_time)),
         token_count |-> Some(token_count),
         error |-> None]

\* benchmark_model without the handler of Exception
benchmark_model_NoCatchAll(model_name, outcome) ==
    IF outcome.kind = "exit"
    THEN Returned(TimedResult(model_name, outcome.stdout, outcome.elapsed))
    ELSE IF outcome.kind = "TimeoutExpired"
         THEN Returned(FailedResult(model_name, "timeout", "Timeout exceeded"))
         ELSE Raised(outcome.kind)

\* benchmark_model(model_name, prompt, timeout), for what the subprocess did
benchmark_model(model_name, outcome) ==
    IF outcome.kind = "exit"
    THEN Returned(TimedResult(model_name, outcome.stdout, outcome.elapsed))
    ELSE IF outcome.kind = "TimeoutExpired"
         THEN Returned(FailedResult(model_name, "timeout", "Timeout exceeded"))
         ELSE Returned(FailedResult(model_name, "error", outcome.kind))

\* the first field of every non-blank line
RECURSIVE FirstFields(_)
FirstFields(lines) ==
    IF lines = <<>> THEN <<>>
    ELSE (IF Strip(Head(lines)) # <<>>
          THEN <<SplitWhitespace(Head(lines))[1]>>
          ELSE <<>>) \o FirstFields(Tail(lines))

\* get_ollama_models(), for what `ollama ls` did
get_ollama_models(ls) ==
    IF ls.kind = "exit" /\ ls.returncode = 0
    THEN FirstFields(Tail(SplitOn(Strip(ls.stdout), "\n")))
    ELSE <<>>

IsSuccess(r) == r.status = "success"

IsFailure(r) == r.status # "success"

\* sorted so far, with r put in its place: behind the entries that do not
\* come after it, so that equal keys keep their order
InsertByKey(sorted, r, key, reverse) ==
    LET stay == {j \in 1..Len(sorted) :
                   IF reverse
                   THEN FLe(r[key][1], sorted[j][key][1])
                   ELSE FLe(sorted[j][key][1], r[key][1])}
        n == Cardinality(stay)
    IN  SubSeq(sorted, 1, n) \o <<r>> \o SubSeq(sorted, n + 1, Len(sorted))

\* sorted(rs, key=lambda x: x[key], reverse=reverse)
RECURSIVE SortedFrom(_, _, _, _)
SortedFrom(sorted, rs, key, reverse) ==
    IF rs = <<>> THEN sorted
    ELSE SortedFrom(InsertByKey(sorted, Head(rs), key, reverse), Tail(rs),
                    key, reverse)

\* the results in list order, unsorted
Sorted_AsListed(rs, key, reverse) == rs

Sorted(rs, key, reverse) == SortedFrom(<<>>, rs, key, reverse)

\* s[:5]
TopFive(s) == SubSeq(s, 1, IF Len(s) < 5 THEN Len(s) ELSE 5)

\* the rows of a sorted table: model and value
TableRows(rs, key) == [i \in 1..Len(rs) |-> <<rs[i].model, rs[i][key][1]>>]

\* a row of the results table
ReportRow(r) ==
    IF r.status = "success"
    THEN <<r.model, r.status, r.first_token_time_ms, r.tokens_per_second,
           r.total_time_s, r.token_count>>
    ELSE <<r.model, r.status, None, None, None, r.error>>

\* 'Ollama Using GPU' of the report
GpuStatus(info) ==
    IF info.gpu_available /\ ~info.gpu_in_use THEN "Available but not used"
    ELSE IF info.gpu_in_use THEN "Yes" ELSE "No"

\* the content generate_markdown_report writes; a table that is left out is
\* None
MarkdownReport(rs, info) ==
    LET successful_results == SelectSeq(rs, IsSuccess)
    IN  [gpu_status |-> GpuStatus(info),
         gpu_split |-> info.gpu_layers,
         total |-> Len(rs),
         successful |-> Len(successful_results),
         failed |-> Len(SelectSeq(rs, IsFailure)),
         rows |-> [i \in 1..Len(rs) |-> ReportRow(rs[i])],
         by_latency |->
             IF successful_results # <<>>
             THEN Some(TableRows(TopFive(Sorted(successful_results,
                           "first_token_time_ms", FALSE)),
                       "first_token_time_ms"))
             ELSE None,
         by_throughput |->
             IF successful_results # <<>>
             THEN Some(TableRows(TopFive(Sorted(successful_results,
                           "tokens_per_second", TRUE)),
                       "tokens_per_second"))
             ELSE None]

\* what `ollama run` can do: answer and exit with 0, exit with an error code
\* (an unknown model), run into the timeout, or not start at all
RunOutcomes ==
    {[kind |-> "exit", returncode |-> 0, stdout |-> <<"a", " ", "b", " ", "c">>,
      elapsed |-> FInt(2)],
     [kind |-> "exit", returncode |-> 0, stdout |-> <<"h", "i", "\n">>,
      elapsed |-> FDyadic(1, 1)],
     [kind |-> "exit", returncode |-> 1, stdout |-> <<>>,
      elapsed |-> FDiv(FInt(13), FInt(10))],
     [kind |-> "TimeoutExpired", returncode |-> 0, stdout |-> <<>>,
      elapsed |-> FInt(0)],
     [kind |-> "FileNotFoundError", returncode |-> 0, stdout |-> <<>>,
      elapsed |-> FInt(0)]}

\* what `ollama ps` prints before the run: no model is loaded
PsNoModel ==
    [raises |-> FALSE, returncode |-> 0, stdout |-> PsStdout(HeaderOther, <<>>)]

\* what `ollama ps` prints after the first model ran: still nothing, or the
\* model on the GPU
BenchPs ==
    {PsNoModel,
     [raises |-> FALSE, returncode |-> 0,
      stdout |-> PsStdout(HeaderOther, <<RowPlainGpu>>)]}

\* what `ollama ls` can do
LsListing ==
    [kind |-> "exit", returncode |-> 0,
     stdout |-> <<"N", "A", "M", "E", " ", "I", "D", " ", "S", "I", "Z", "E", "\n", "q", " ", "1", " ", "1", "G", "B", "\n", "\n", "r", " ", "2", " ", "2", "G", "B", "\n">>]

LsHeaderOnly ==
    [kind |-> "exit", returncode |-> 0,
     stdout |-> <<"N", "A", "M", "E", " ", "I", "D", " ", "S", "I", "Z", "E", "\n">>]

LsFailed == [kind |-> "exit", returncode |-> 1, stdout |-> <<>>]

LsMissing == [kind |-> "FileNotFoundError", returncode |-> 0, stdout |-> <<>>]

LsOutcomes == {LsListing, LsHeaderOnly, LsFailed, LsMissing}

\* model lists given on the command line
SixModels == <<<<"a">>, <<"b">>, <<"c">>, <<"d">>, <<"e">>, <<"f">>>>

SpecifiedLists == {<<<<"a">>>>, <<<<"a">>, <<"a">>>>, SixModels}

\* the runs: entry point, command line and `ollama ls`
BenchInputs ==
    {[entry |-> "main", specified |-> s, ls |-> LsListing] :
        s \in SpecifiedLists}
    \cup {[entry |-> e, specified |-> <<>>, ls |-> l] :
            e \in {"main", "example"}, l \in LsOutcomes}

(***************************************************************************)
(* The benchmark run: main of ollama_benchmark.py and                      *)
(* example_benchmark_and_report of benchmarks/example_usage.py.            *)
(***************************************************************************)
\* the strategies the copy of get_ollama_gpu_info in ollama_benchmark.py
\* went through
ScriptStrategiesOf(ps) ==
    IF ps.raises \/ ps.returncode # 0 \/ Len(PsLines(ps.stdout)) <= 1
    THEN <<>>
    ELSE <<"whitespace-split">>

\* get_ollama_gpu_info as the entry point imports it
EntryGpuInfo(entry, ps, found) ==
    IF entry = "main" THEN ScriptGpuInfo(ps, found) ELSE GpuInfo(ps, found)

EntryGpuCall(entry, ps) ==
    IF entry = "main"
    THEN [fn |-> "ollama_benchmark", strategies |-> ScriptStrategiesOf(ps)]
    ELSE [fn |-> "benchmarks.gpu_info", strategies |-> StrategiesOf(ps)]

\* the model list: the models named on the command line, else those
\* `ollama ls` lists
ModelList(b) ==
    IF b.entry = "main" /\ b.specified # <<>>
    THEN b.specified
    ELSE get_ollama_models(b.ls)

\* the run up to the loop: GPU status and model list; no models, no run
benchmark_start ==
    /\ bpc = "start"
    /\ gpu_info' = EntryGpuInfo(bench_in.entry, ps_out, backend)
    /\ gpu_call' = EntryGpuCall(bench_in.entry, ps_out)
    /\ models' = ModelList(bench_in)
    /\ bpc' = IF ModelList(bench_in) = <<>> THEN "returned" ELSE "loop"
    /\ UNCHANGED <<ps_out, backend, bench_in, runs, results, report, toolVars>>

\* a loop that keeps the successful results only
benchmark_loop_DropFailed ==
    /\ bpc = "loop"
    /\ Len(runs) < Len(models)
    /\ \E outcome \in RunOutcomes :
          LET model == models[Len(runs) + 1]
              ret == benchmark_model(model, outcome)
          IN  /\ runs' = Append(runs, [model |-> model, outcome |-> outcome])
              /\ results' = IF ret.value.status = "success"
                            THEN Append(results, ret.value)
                            ELSE results
    /\ UNCHANGED <<gpuVars, bench_in, bpc, models, report, toolVars>>

\* one round of the loop: benchmark the next model and append its result;
\* main asks for the GPU status again after a successful first model
benchmark_loop ==
    /\ bpc = "loop"
    /\ Len(runs) < Len(models)
    /\ \E outcome \in RunOutcomes :
          LET i == Len(runs) + 1
              ret == benchmark_model(models[i], outcome)
              again == /\ bench_in.entry = "main"
                       /\ i = 1
                       /\ ret.status = "returned"
                       /\ ret.value.status = "success"
          IN  /\ runs' = Append(runs, [model |-> models[i], outcome |-> outcome])
              /\ IF ret.status = "returned"
                 THEN results' = Append(results, ret.value) /\ bpc' = "loop"
                 ELSE results' = results /\ bpc' = "raised"
              /\ IF again
                 THEN \E ps \in BenchPs :
                         /\ ps_out' = ps
                         /\ gpu_info' = ScriptGpuInfo(ps, backend)
                         /\ gpu_call' = EntryGpuCall("main", ps)
                 ELSE UNCHANGED <<ps_out, gpu_info, gpu_call>>
    /\ UNCHANGED <<backend, bench_in, models, report, toolVars>>

\* generate_markdown_report(results, machine_specs, ollama_gpu_info), after
\* the loop
generate_markdown_report ==
    /\ bpc = "loop"
    /\ Len(runs) = Len(models)
    /\ report' = Some(MarkdownReport(results, gpu_info))
    /\ bpc' = "done"
    /\ UNCHANGED <<gpuVars, bench_in, models, runs, results, toolVars>>

InitBench ==
    /\ bench_in \in BenchInputs
    /\ ps_out = PsNoModel
    /\ backend = (IF bench_in.entry = "main" THEN "AMD ROCm" ELSE "")
    /\ gpu_call = NoGpuCall
    /\ gpu_info = NoGpuInfo
    /\ bpc = "start"
    /\ models = <<>>
    /\ runs = <<>>
    /\ results = <<>>
    /\ report = None
    /\ ToolIdle

NextBench == benchmark_start \/ benchmark_loop \/ generate_markdown_report

SpecBench == InitBench /\ [][NextBench]_vars

(***************************************************************************)
(* Properties of size resolution (checked under SpecSize).                 *)
(***************************************************************************)
\* calculate_image_size was called, on an image that has a size
SizeCalled == size_ret.status # "none" /\ image_readable

OW == FInt(original_width)

OH == FInt(original_height)

Positive(f) == f.sgn = 0 /\ ~FIsZero(f)

DAbs(d) == [d EXCEPT !.sgn = 0]

\* a <= b * (1 + 2^-51), in exact arithmetic: a exceeds b by floating
\* rounding at most (two roundings of relative error 2^-53 each)
LeWithinRounding(a, b) == FLe(DScale(DSub(a, b), 51), DAbs(b))

\* a >= b * (1 - 2^-51), in exact arithmetic
GeWithinRounding(a, b) == FLe(DScale(DSub(b, a), 51), DAbs(b))

\* a = b * (1 +- 2^-51), in exact arithmetic
EqWithinRounding(a, b) == FLe(DScale(DAbs(DSub(a, b)), 51), DAbs(b))

\* the call gave a scale
ScaleGiven == SizeCalled /\ ~IsNone(size_call.scale)

\* the call gave a width and a height and no scale
BothGiven ==
    SizeCalled /\ IsNone(size_call.scale)
        /\ ~IsNone(size_call.width) /\ ~IsNone(size_call.height)

\* ... and both are positive
BoxGiven ==
    BothGiven /\ Positive(size_call.width[1]) /\ Positive(size_call.height[1])

WidthOnlyGiven ==
    SizeCalled /\ IsNone(size_call.scale)
        /\ ~IsNone(size_call.width) /\ IsNone(size_call.height)

HeightOnlyGiven ==
    SizeCalled /\ IsNone(size_call.scale)
        /\ IsNone(size_call.width) /\ ~IsNone(size_call.height)

NothingGiven ==
    SizeCalled /\ IsNone(size_call.scale)
        /\ IsNone(size_call.width) /\ IsNone(size_call.height)

FitFormula(w, h) ==
    LET f == FMin(FDiv(w, OW), FDiv(h, OH)) IN <<FMul(OW, f), FMul(OH, f)>>

\* original * max(w / original_width, h / original_height), as floats
FillFormula(w, h) ==
    LET f == FMax(FDiv(w, OW), FDiv(h, OH)) IN <<FMul(OW, f), FMul(OH, f)>>

\* C2 as stated: in 'fit' mode with a positive box (w, h) the result is
\* original * min(w/original_width, h/original_height) and lies within the
\* box: width <= w and height <= h.
C2_FitWithinBox_AsStated ==
    (BoxGiven /\ size_call.fit_mode = "fit") =>
        /\ size_ret.status = "returned"
        /\ size_ret.value = FitFormula(size_call.width[1], size_call.height[1])
        /\ FLe(size_ret.value[1], size_call.width[1])
        /\ FLe(size_ret.value[2], size_call.height[1])

\* C2 amended: in 'fit' mode with a positive box (w, h) the result is
\* original * min(w/original_width, h/original_height) computed in floats, and
\* it lies within the box up to floating rounding: width <= w * (1 + 2^-51)
\* and height <= h * (1 + 2^-51).
C2_FitWithinBoxUpToRounding ==
    (BoxGiven /\ size_call.fit_mode = "fit") =>
        /\ size_ret.status = "returned"
        /\ size_ret.value = FitFormula(size_call.width[1], size_call.height[1])
        /\ LeWithinRounding(size_ret.value[1], size_call.width[1])
        /\ LeWithinRounding(size_ret.value[2], size_call.height[1])

\* The 3 x 11 image fitted into 200 x 200: the height comes out as
\* 200.00000000000003, above the box by one unit in the last place.
C2_Witness ==
    /\ original_width = 3 /\ original_height = 11
    /\ BoxGiven /\ size_call.fit_mode = "fit"
    /\ size_call.width[1] = FInt(200) /\ size_call.height[1] = FInt(200)
    /\ FLt(FInt(200), size_ret.value[2])
    /\ FLt(size_ret.value[1], FInt(55))

\* C3 as stated: in 'fill' mode with a positive box (w, h) the result is
\* original * max(w/original_width, h/original_height) and covers the box:
\* width >= w and height >= h.
C3_FillCoversBox_AsStated ==
    (BoxGiven /\ size_call.fit_mode = "fill") =>
        /\ size_ret.status = "returned"
        /\ size_ret.value = FillFormula(size_call.width[1], size_call.height[1])
        /\ FLe(size_call.width[1], size_ret.value[1])
        /\ FLe(size_call.height[1], size_ret.value[2])

\* C3 amended: in 'fill' mode with a positive box (w, h) the result is
\* original * max(w/original_width, h/original_height) computed in floats, and
\* it covers the box up to floating rounding: width >= w * (1 - 2^-51) and
\* height >= h * (1 - 2^-51).
C3_FillCoversBoxUpToRounding ==
    (BoxGiven /\ size_call.fit_mode = "fill") =>
        /\ size_ret.status = "returned"
        /\ size_ret.value = FillFormula(size_call.width[1], size_call.height[1])
        /\ GeWithinRounding(size_ret.value[1], size_call.width[1])
        /\ GeWithinRounding(size_ret.value[2], size_call.height[1])

\* The 3 x 11 image filling 1 x 15: the height comes out as
\* 14.999999999999998, below the box by one unit in the last place.
C3_Witness ==
    /\ original_width = 3 /\ original_height = 11
    /\ BoxGiven /\ size_call.fit_mode = "fill"
    /\ size_call.width[1] = FInt(1) /\ size_call.height[1] = FInt(15)
    /\ FLt(size_ret.value[2], FInt(15))
    /\ FLt(FInt(4), size_ret.value[1])

\* C4 as stated: in 'fit' and 'fill' mode with a positive box the result has
\* the aspect ratio of the original exactly:
\* result_width * original_height = result_height * original_width.
C4_AspectPreserved_AsStated ==
    (BoxGiven /\ size_call.fit_mode \in {"fit", "fill"}) =>
        /\ size_ret.status = "returned"
        /\ DMul(size_ret.value[1], OH) = DMul(size_ret.value[2], OW)

\* C4 amended: in 'fit' and 'fill' mode with a positive box the result has
\* the aspect ratio of the original to within floating rounding:
\* |result_width * original_height - result_height * original_width|
\*   <= 2^-51 * result_height * original_width.
C4_AspectPreservedUpToRounding ==
    (BoxGiven /\ size_call.fit_mode \in {"fit", "fill"}) =>
        /\ size_ret.status = "returned"
        /\ EqWithinRounding(DMul(size_ret.value[1], OH),
                            DMul(size_ret.value[2], OW))

\* The 3 x 11 image filling 200 x 200 (200.0 x 733.3333333333334): the two
\* products differ, by rounding only.
C4_Witness ==
    /\ original_width = 3 /\ original_height = 11
    /\ BoxGiven /\ size_call.fit_mode = "fill"
    /\ size_call.width[1] = FInt(200) /\ size_call.height[1] = FInt(200)
    /\ size_ret.value[1] = FInt(200)
    /\ FLt(FInt(733), size_ret.value[2])
    /\ DMul(size_ret.value[1], OH) # DMul(size_ret.value[2], OW)

\* C5: with a width and a height given, no scale, and fit_mode 'stretch',
\* calculate_image_size returns exactly (width, height), for every image and
\* every keep_aspect.
C5_StretchIsExact ==
    (BothGiven /\ size_call.fit_mode = "stretch") =>
        /\ size_ret.status = "returned"
        /\ size_ret.value = <<size_call.width[1], size_call.height[1]>>

\* The 400 x 600 portrait stretched to the landscape box 200 x 15 with
\* keep_aspect = True.
C5_Witness ==
    /\ original_width = 400 /\ original_height = 600
    /\ BothGiven /\ size_call.fit_mode = "stretch" /\ size_call.keep_aspect
    /\ size_ret.value = <<FInt(200), FInt(15)>>

\* C6: with exactly one of width and height given and no scale, the given
\* dimension is returned unchanged; the other one is w / (original_width /
\* original_height), respectively h * (original_width / original_height), if
\* keep_aspect, and the image's own dimension if not.
C6_OneDimensionGiven ==
    /\ WidthOnlyGiven =>
        /\ size_ret.status = "returned"
        /\ size_ret.value[1] = size_call.width[1]
        /\ size_ret.value[2] =
              IF size_call.keep_aspect
              THEN FDiv(size_call.width[1], FDiv(OW, OH))
              ELSE OH
    /\ HeightOnlyGiven =>
        /\ size_ret.status = "returned"
        /\ size_ret.value[2] = size_call.height[1]
        /\ size_ret.value[1] =
              IF size_call.keep_aspect
              THEN FMul(size_call.height[1], FDiv(OW, OH))
              ELSE OW

\* Width 200 alone on the 400 x 600 image, aspect kept: (200, 300).
C6_Witness ==
    /\ original_width = 400 /\ original_height = 600
    /\ WidthOnlyGiven /\ size_call.keep_aspect
    /\ size_ret.value = <<FInt(200), FInt(300)>>

\* C7: with no width, no height and no scale, calculate_image_size returns
\* the constant (99, 127), for every image, keep_aspect and fit_mode.
C7_DefaultSize ==
    NothingGiven =>
        /\ size_ret.status = "returned"
        /\ size_ret.value = <<FInt(99), FInt(127)>>

\* Nothing given for the 400 x 600 image, keep_aspect = False, 'fill'.
C7_Witness ==
    /\ original_width = 400 /\ original_height = 600
    /\ NothingGiven /\ ~size_call.keep_aspect /\ size_call.fit_mode = "fill"
    /\ size_ret.value = <<FInt(99), FInt(127)>>

\* the call gave a scale <= 0, or a width or a height <= 0 that is used
BadDirective ==
    \/ ScaleGiven /\ ~Positive(size_call.scale[1])
    \/ SizeCalled /\ IsNone(size_call.scale)
         /\ \/ ~IsNone(size_call.width) /\ ~Positive(size_call.width[1])
            \/ ~IsNone(size_call.height) /\ ~Positive(size_call.height[1])

\* C8: size resolution fails with InvalidDirective, and returns no size, for
\* a scale factor <= 0 and for an explicit width or height <= 0.
C8_InvalidDirectiveRaised ==
    BadDirective =>
        /\ size_ret.status = "raised"
        /\ size_ret.exc = "InvalidDirective"

\* C9: fit_mode matters only when a width and a height are given and no
\* scale: in every other case all three fit modes give the result returned.
C9_FitModeOnlyForBox ==
    (SizeCalled /\ ~BothGiven) =>
        \A fit_mode \in FitModes :
            size_ret = Returned(CalcImageSize(original_width, original_height,
                                              size_call.width, size_call.height,
                                              size_call.scale,
                                              size_call.keep_aspect, fit_mode))

\* Width 200 alone on the 400 x 600 image with 'stretch' and the aspect
\* kept: (200, 300) as in the other modes, not (200, 600).
C9_Witness ==
    /\ original_width = 400 /\ original_height = 600
    /\ WidthOnlyGiven /\ size_call.keep_aspect /\ size_call.fit_mode = "stretch"
    /\ size_ret.value = <<FInt(200), FInt(300)>>

(***************************************************************************)
(* Properties of position resolution (checked under SpecPos).              *)
(***************************************************************************)
PosCalled == pos_ret.status # "none"

\* C10: with x and y both given, calculate_position returns (x, y) as given,
\* for every page, image size, position name and margin; coordinates that
\* are negative or off the page are returned unchanged, and nothing is raised.
C10_ExplicitVerbatim ==
    (PosCalled /\ ~IsNone(pos_call.x) /\ ~IsNone(pos_call.y)) =>
        /\ pos_ret.status = "returned"
        /\ pos_ret.value = <<pos_call.x[1], pos_call.y[1]>>

\* x = -50 and y = 1000 on an A4 page (595 x 842), with the position name
\* 'center' passed too: (-50, 1000) comes back.
C10_Witness ==
    /\ PosCalled
    /\ pos_call.page_width = FInt(595) /\ pos_call.page_height = FInt(842)
    /\ pos_call.position = Some("center")
    /\ pos_call.x = Some(FInt(-50)) /\ pos_call.y = Some(FInt(1000))
    /\ FLt(pos_ret.value[1], FInt(0))
    /\ FLt(pos_call.page_height, pos_ret.value[2])
    /\ pos_ret.value = <<FInt(-50), FInt(1000)>>

\* one of x, y is missing: the coordinates are not used
NoCoordinates == PosCalled /\ (IsNone(pos_call.x) \/ IsNone(pos_call.y))

\* the value returned does not depend on the margin
MarginIgnored ==
    \A m \in Margins :
        pos_ret.value = CalcPosition(pos_call.page_width, pos_call.page_height,
                                     pos_call.img_width, pos_call.img_height,
                                     pos_call.position, pos_call.x, pos_call.y, m)

CenterCase == NoCoordinates /\ pos_call.position = Some("center")

\* ((page - img) / 2) on both axes, as floats
CenterFormula ==
    <<FDiv(FSub(pos_call.page_width, pos_call.img_width), FInt(2)),
      FDiv(FSub(pos_call.page_height, pos_call.img_height), FInt(2))>>

\* origin + img / 2 - page / 2 on one axis, exactly
CenterOffset(origin, img, page) ==
    DSub(DAdd(origin, DScale(img, -1)), DScale(page, -1))

\* C11 as stated: for the anchor 'center' calculate_position returns
\* ((page_width - img_width)/2, (page_height - img_height)/2), whatever the
\* margin, and x + img_width/2 = page_width/2, y + img_height/2 =
\* page_height/2 exactly.
C11_CenterIsCentered_AsStated ==
    CenterCase =>
        /\ pos_ret.status = "returned"
        /\ pos_ret.value = CenterFormula
        /\ MarginIgnored
        /\ FIsZero(CenterOffset(pos_ret.value[1], pos_call.img_width,
                                pos_call.page_width))
        /\ FIsZero(CenterOffset(pos_ret.value[2], pos_call.img_height,
                                pos_call.page_height))

\* |off| <= 2^-54 * |page - img|
CenteredWithinRounding(off, img, page) ==
    FLe(DScale(DAbs(off), 54), DAbs(DSub(page, img)))

\* C11 amended: for the anchor 'center' calculate_position returns
\* ((page_width - img_width)/2, (page_height - img_height)/2) computed in
\* floats, whatever the margin, and the image is centred to within the
\* rounding of the subtraction:
\* |x + img_width/2 - page_width/2| <= 2^-54 * |page_width - img_width|, and
\* the same for y.
C11_CenterIsCenteredUpToRounding ==
    CenterCase =>
        /\ pos_ret.status = "returned"
        /\ pos_ret.value = CenterFormula
        /\ MarginIgnored
        /\ CenteredWithinRounding(
               CenterOffset(pos_ret.value[1], pos_call.img_width,
                            pos_call.page_width),
               pos_call.img_width, pos_call.page_width)
        /\ CenteredWithinRounding(
               CenterOffset(pos_ret.value[2], pos_call.img_height,
                            pos_call.page_height),
               pos_call.img_height, pos_call.page_height)

\* The 54.54545454545455 x 200.00000000000003 image centred on an A4 page
\* with margin 20: x = 270.22727272727275 is off the centre by rounding, and
\* y = 321.0.
C11_Witness ==
    /\ CenterCase
    /\ pos_call.page_width = FInt(595) /\ pos_call.page_height = FInt(842)
    /\ <<pos_call.img_width, pos_call.img_height>>
           = FitSize(3, 11, FInt(200), FInt(200))
    /\ pos_call.margin = FInt(20)
    /\ FLt(FInt(270), pos_ret.value[1]) /\ FLt(pos_ret.value[1], FInt(271))
    /\ pos_ret.value[2] = FInt(321)
    /\ ~FIsZero(CenterOffset(pos_ret.value[1], pos_call.img_width,
                             pos_call.page_width))

CornerCase ==
    /\ NoCoordinates
    /\ pos_call.position \in
          {Some(p) : p \in {"top-left", "top-right", "bottom-left", "bottom-right"}}

\* C12: for a corner anchor with margin m and no explicit coordinates, x is m
\* for the left anchors and page_width - img_width - m for the right ones, y
\* is page_height - img_height - m for the top anchors and m for the bottom
\* ones.
C12_CornerAnchors ==
    CornerCase =>
        LET p == pos_call.position[1]
            m == pos_call.margin
            right == FSub(FSub(pos_call.page_width, pos_call.img_width), m)
            top   == FSub(FSub(pos_call.page_height, pos_call.img_height), m)
        IN  /\ pos_ret.status = "returned"
            /\ pos_ret.value[1] =
                  IF p \in {"top-left", "bottom-left"} THEN m ELSE right
            /\ pos_ret.value[2] =
                  IF p \in {"top-left", "top-right"} THEN top ELSE m

\* A4 page, size 99 x 127, top-right, margin 20: (476, 695).
C12_Witness ==
    /\ CornerCase
    /\ pos_call.page_width = FInt(595) /\ pos_call.page_height = FInt(842)
    /\ pos_call.img_width = FInt(99) /\ pos_call.img_height = FInt(127)
    /\ pos_call.position = Some("top-right")
    /\ pos_call.margin = FInt(20)
    /\ pos_ret.value = <<FInt(476), FInt(695)>>

\* no position, or a name that is not in POSITIONS, and no coordinates
UnknownCase ==
    /\ NoCoordinates
    /\ (IsNone(pos_call.position) \/ pos_call.position[1] \notin DOMAIN POSITIONS)

\* the top-right origin for the margin m, as floats
TopRightFormula(m) ==
    <<FSub(FSub(pos_call.page_width, pos_call.img_width), m),
      FSub(FSub(pos_call.page_height, pos_call.img_height), m)>>

\* C13 as stated: for a position that is not one of the five anchors (or no
\* position) and no explicit coordinates, calculate_position does not fail
\* and returns the top-right origin for the default margin.
C13_FallbackDefaultMargin_AsStated ==
    UnknownCase =>
        /\ pos_ret.status = "returned"
        /\ pos_ret.value = TopRightFormula(FInt(DEFAULT_MARGIN))

\* C13 amended: for a position that is not one of the five anchors (or no
\* position) and no explicit coordinates, calculate_position does not fail
\* and returns the top-right origin for the margin it was passed.
C13_FallbackTopRight ==
    UnknownCase =>
        /\ pos_ret.status = "returned"
        /\ pos_ret.value = TopRightFormula(pos_call.margin)

\* The unknown name 'middle' on an A4 page, size 99 x 127, margin 0:
\* (496, 715), the top-right origin without a margin.
C13_Witness ==
    /\ UnknownCase
    /\ pos_call.position = Some("middle")
    /\ pos_call.page_width = FInt(595) /\ pos_call.page_height = FInt(842)
    /\ pos_call.img_width = FInt(99) /\ pos_call.img_height = FInt(127)
    /\ pos_call.margin = FInt(0)
    /\ pos_ret.value = <<FInt(496), FInt(715)>>

(***************************************************************************)
(* Properties of insert_image (checked under SpecInsert).                  *)
(***************************************************************************)
IsSinkCall(e) == e.op = "insert_image"

\* the invocations of the sink's image insertion so far
SinkCalls == SelectSeq(io, IsSinkCall)

IsSave(e) == e.op = "save"

Saves == SelectSeq(io, IsSave)

\* C14: insert_image resolves the size before the position, passes the
\* resolved size (never the width and height asked for) to calculate_position,
\* so that the origin is calculate_position of the resolved size, and hands the
\* sink the rectangle (x, y, x + img_width, y + img_height).
C14_PositionFromResolvedSize ==
    /\ pos_ret.status # "none" =>
          /\ size_ret.status = "returned"
          /\ <<pos_call.img_width, pos_call.img_height>> = size_ret.value
          /\ pos_ret = Returned(CalcPosition(frame.page[1], frame.page[2],
                                             size_ret.value[1], size_ret.value[2],
                                             ins_args.position, ins_args.x,
                                             ins_args.y, ins_args.margin))
    /\ \A i \in 1..Len(SinkCalls) :
          /\ pos_ret.status = "returned"
          /\ SinkCalls[i].rect =
                <<pos_ret.value[1], pos_ret.value[2],
                  FAdd(pos_ret.value[1], size_ret.value[1]),
                  FAdd(pos_ret.value[2], size_ret.value[2])>>

\* The 400 x 600 image asked to fit 200 x 200 at the top right of an A4 page
\* with margin 20: the size resolves to 133.33 x 200, the origin is
\* (441.67, 622) and not the (375, 622) of the width asked for, and the sink
\* gets (441.67, 622, 575, 822).
C14_Witness ==
    /\ original_width = 400 /\ original_height = 600
    /\ ins_args.width = Some(FInt(200)) /\ ins_args.height = Some(FInt(200))
    /\ ins_args.fit_mode = "fit"
    /\ ins_args.position = Some("top-right") /\ ins_args.margin = FInt(20)
    /\ frame.page = <<FInt(595), FInt(842)>>
    /\ Len(SinkCalls) = 1
    /\ FLt(size_ret.value[1], FInt(134))
    /\ FLt(FInt(441), pos_ret.value[1]) /\ FLt(pos_ret.value[1], FInt(442))
    /\ pos_ret.value[2] = FInt(622)
    /\ SinkCalls[1].rect[3] = FInt(575) /\ SinkCalls[1].rect[4] = FInt(822)

\* a resolver raised in this call
ResolverFailed == frame.failed \in {"size", "position"}

\* C15 as stated: when size or position resolution fails, the PDF has not been
\* opened, no image has been inserted and no output file has been saved.
C15_NoIoBeforeResolverFailure_AsStated ==
    ResolverFailed =>
        /\ pdf = "None"
        /\ io = <<>>

\* C15 amended: when size resolution fails (position resolution has no
\* failure), the input PDF has been opened already, but no image has been
\* inserted and no output file has been saved, then or later; the call
\* closes the PDF and returns False.
C15_NoWriteAfterResolverFailure ==
    ResolverFailed =>
        /\ frame.failed = "size"
        /\ size_ret.status = "raised"
        /\ pos_ret.status = "none"
        /\ Len(io) >= 1 /\ io[1] = IoEvent("open", <<>>, 0, None, "ok")
        /\ SinkCalls = <<>>
        /\ Saves = <<>>
        /\ pc \in {"finally", "returned"}
        /\ pc = "returned" =>
              /\ ins_ret = Returned(FALSE)
              /\ pdf = "closed"
              /\ io = <<IoEvent("open", <<>>, 0, None, "ok"),
                        IoEvent("close", <<>>, 0, None, "ok")>>

\* The image cannot be decoded: insert_image has returned False, having
\* opened and closed the PDF and nothing else.
C15_Witness ==
    /\ ~image_readable
    /\ ResolverFailed
    /\ pc = "returned"
    /\ ins_ret = Returned(FALSE)
    /\ Len(io) = 2
    /\ pdf = "closed"

\* C16 as stated: during one insert_image call the sink's image insertion is
\* invoked at most once, and never again after an invocation that failed.
C16_NoRetry_AsStated ==
    /\ Len(SinkCalls) <= 1
    /\ \A i \in 1..Len(SinkCalls) :
          SinkCalls[i].outcome # "ok" => i = Len(SinkCalls)

\* C16 amended: during one insert_image call the sink's image insertion is
\* invoked at most twice; a second invocation is made only after a first one
\* that passed an opacity other than 1.0 and raised TypeError, and it is the
\* same invocation without the opacity; after any other failure, and after a
\* success, the sink is not invoked again.
C16_OnlyOpacityFallback ==
    /\ Len(SinkCalls) <= 2
    /\ Len(SinkCalls) = 2 =>
          /\ SinkCalls[1].outcome = "TypeError"
          /\ SinkCalls[1].opacity = Some(ins_args.opacity)
          /\ OpacityGiven(ins_args)
          /\ SinkCalls[2] = [SinkCalls[1] EXCEPT !.opacity = None,
                                                 !.outcome = SinkCalls[2].outcome]
    /\ (pc = "fallback") =>
          (Len(SinkCalls) = 1 /\ SinkCalls[1].outcome = "TypeError")

\* Opacity 0.5 on a PyMuPDF whose insert_image takes no opacity: the first
\* invocation raised TypeError, the second, without opacity, went through
\* and the output was saved.
C16_Witness ==
    /\ ins_args.opacity = FDyadic(1, 1)
    /\ Len(SinkCalls) = 2
    /\ SinkCalls[1].outcome = "TypeError"
    /\ SinkCalls[2].outcome = "ok"
    /\ SinkCalls[2].opacity = None
    /\ ins_ret = Returned(TRUE)

Rejected == SinkCalls = <<>> /\ exit_status # Some(0)

\* the run ended in main before any file was validated, opened or written
ExitsBeforeFiles ==
    /\ io = <<>>
    /\ pc \in {"main", "exited"}
    /\ pc = "exited" => exit_status # None

\* C17: a command line (for an insertion, not --setup) that gives --position
\* together with --x and --y is rejected, and no image is inserted.
C17_PositionExcludesCoordinates ==
    (/\ ~argv.setup
     /\ pc # "idle"
     /\ ~IsNone(argv.position)
     /\ ~IsNone(argv.x) /\ ~IsNone(argv.y)) => Rejected

\* C18: a command line (for an insertion, not --setup) that gives --scale
\* together with --width or --height is rejected, and no image is inserted.
C18_ScaleExcludesWidthHeight ==
    (/\ ~argv.setup
     /\ pc # "idle"
     /\ ~IsNone(argv.scale)
     /\ (~IsNone(argv.width) \/ ~IsNone(argv.height))) => Rejected

\* the sink invocations made have a rotation among the choices and an
\* opacity, when one is passed, within [0.0, 1.0]
SinkCallsInRange ==
    \A i \in 1..Len(SinkCalls) :
        /\ SinkCalls[i].rotate \in ROTATION_CHOICES
        /\ SinkCalls[i].opacity = None \/ OpacityValid(SinkCalls[i].opacity[1])
        /\ OpacityValid(ins_args.opacity)

\* the command line has an opacity outside [0.0, 1.0] or a rotation outside
\* {0, 90, 180, 270}
OutOfRange ==
    /\ pc # "idle"
    /\ ~OpacityValid(argv.opacity) \/ argv.rotation \notin ROTATION_CHOICES

\* C20 as stated: every sink insertion reached from the command line has a
\* rotation in {0, 90, 180, 270} and an opacity in [0.0, 1.0], and a command
\* line with an opacity or a rotation out of range exits with a non-zero
\* status before any file is validated, opened or written.
C20_RangeChecked_AsStated ==
    /\ SinkCallsInRange
    /\ OutOfRange => (Rejected /\ ExitsBeforeFiles)

\* C20 amended: every sink insertion reached from the command line has a
\* rotation in {0, 90, 180, 270} and an opacity in [0.0, 1.0], and a command
\* line without --setup with an opacity or a rotation out of range exits
\* with a non-zero status before any file is validated, opened or written.
C20_RangeCheckedUnlessSetup ==
    /\ SinkCallsInRange
    /\ (OutOfRange /\ ~argv.setup) => (Rejected /\ ExitsBeforeFiles)

\* --opacity 1.5 on an otherwise good command line, with PyMuPDF and all
\* files in place: exit status 1, and no file was looked at.
C20_Witness ==
    /\ ~argv.setup /\ argv.paths
    /\ argv.opacity = FDyadic(3, 1) /\ argv.rotation = 90
    /\ IsNone(argv.x) /\ IsNone(argv.y)
    /\ env = PlainEnv /\ image_readable
    /\ pc = "exited"
    /\ exit_status = Some(1)
    /\ io = <<>>

\* insert_image has been called in this run
InsertCalled ==
    \/ pc \in {"open", "page", "size", "position", "insert", "fallback",
                "save", "finally", "returned"}
    \/ ins_ret.status # "none"

\* insert_image was called with a page number that is not a page of the PDF
PageOutOfRange ==
    /\ InsertCalled
    /\ ins_args.page_num < 0 \/ ins_args.page_num >= Len(env.pages)

\* C21: insert_image with a page number out of range (page_num < 0 or
\* page_num >= number of pages) inserts no image and writes no output file,
\* returns False, and main exits with status 1.
C21_PageOutOfRangeFails ==
    PageOutOfRange =>
        /\ SinkCalls = <<>>
        /\ Saves = <<>>
        /\ pc \notin {"size", "position", "insert", "fallback", "save"}
        /\ pc \in {"returned", "exited"} => ins_ret = Returned(FALSE)
        /\ pc = "exited" => exit_status = Some(1)

\* --page -1 on a one-page PDF with everything else in order: the run has
\* exited with status 1, having opened and closed the PDF and nothing else.
C21_Witness ==
    /\ PageOutOfRange
    /\ argv.page = -1 /\ ins_args.page_num = -1
    /\ Len(env.pages) = 1
    /\ frame.failed = "page"
    /\ pc = "exited"
    /\ exit_status = Some(1)
    /\ ins_ret = Returned(FALSE)
    /\ Len(io) = 3 /\ io[2].op = "open" /\ io[3].op = "close"

IsOpen(e) == e.op = "open" /\ e.outcome = "ok"

IsClose(e) == e.op = "close"

\* C29: when insert_image has returned, the PDF it opened has been closed
\* exactly once, and it returned True only if the sink inserted the image
\* and the output was saved.
C29_ClosedOnEveryPath ==
    ins_ret.status = "returned" =>
        /\ Len(SelectSeq(io, IsOpen)) = 1 =>
              /\ Len(SelectSeq(io, IsClose)) = 1
              /\ pdf = "closed"
        /\ Len(SelectSeq(io, IsOpen)) = 0 => Len(SelectSeq(io, IsClose)) = 0
        /\ ins_ret.value =>
              /\ Len(SinkCalls) >= 1
              /\ SinkCalls[Len(SinkCalls)].outcome = "ok"
              /\ Len(Saves) = 1 /\ Saves[1].outcome = "ok"

(***************************************************************************)
(* The parse of `ollama ps`.                                               *)
(***************************************************************************)
\* the call read a table: the command ran and exited with 0
PsRead == gpu_call.fn # "none" /\ ~ps_out.raises /\ ps_out.returncode = 0

PsHeader == PsLines(ps_out.stdout)[1]

PsRows == Tail(PsLines(ps_out.stdout))

HasProcessorColumn == Find(PsHeader, PROCESSOR) >= 0

\* the two fields the parse sets
GpuFields(info) == <<info.gpu_in_use, info.gpu_layers>>

\* C23: get_ollama_gpu_info of benchmarks/gpu_info.py goes through exactly
\* one strategy when the output has data rows: the fixed-column strategy when
\* the header has a PROCESSOR column, and its result stands whatever the
\* whitespace-split strategy would have found; the whitespace-split strategy
\* only when the header has no PROCESSOR column.
C23_FirstStrategyWins ==
    (PsRead /\ gpu_call.fn = "benchmarks.gpu_info" /\ PsRows # <<>>) =>
        IF HasProcessorColumn
        THEN /\ gpu_call.strategies = <<"fixed-column">>
             /\ GpuFields(gpu_info)
                    = GpuFields(FixedColumnRows(NoGpuInfo, PsRows,
                                    Find(PsHeader, PROCESSOR),
                                    Find(PsHeader, CONTEXT)))
        ELSE /\ gpu_call.strategies = <<"whitespace-split">>
             /\ GpuFields(gpu_info) = GpuFields(SplitRows(NoGpuInfo, PsRows))

\* a table with a PROCESSOR column whose only row is not aligned with it: the
\* fixed-column strategy finds nothing, the other would have found a GPU
C23_Witness ==
    /\ PsRead
    /\ gpu_call.fn = "benchmarks.gpu_info"
    /\ PsRows = <<RowPlainGpu>>
    /\ HasProcessorColumn
    /\ SplitRows(NoGpuInfo, PsRows).gpu_in_use
    /\ gpu_call.strategies = <<"fixed-column">>
    /\ ~gpu_info.gpu_in_use
    /\ gpu_info.gpu_layers = NA

\* the PROCESSOR slices of the non-blank rows that contain GPU in any case
GpuSlices ==
    {FixedColumnProcessor(PsRows[i], Find(PsHeader, PROCESSOR),
                          Find(PsHeader, CONTEXT)) :
        i \in {j \in 1..Len(PsRows) :
                 /\ Strip(PsRows[j]) # <<>>
                 /\ Contains(Upper(FixedColumnProcessor(PsRows[j],
                                       Find(PsHeader, PROCESSOR),
                                       Find(PsHeader, CONTEXT))), GPU)}}

\* C24: for an output whose header has a PROCESSOR column, gpu_in_use is True
\* exactly when some non-blank row has GPU (in any case) in its PROCESSOR
\* slice, and gpu_layers is then such a slice, stripped.
C24_GpuInUseFromProcessorColumn ==
    (PsRead /\ gpu_call.fn = "benchmarks.gpu_info" /\ HasProcessorColumn) =>
        /\ gpu_info.gpu_in_use <=> GpuSlices # {}
        /\ gpu_info.gpu_in_use => gpu_info.gpu_layers \in GpuSlices

\* the PROCESSOR values the call read from the rows
ProcessorValues ==
    IF gpu_call.strategies = <<"fixed-column">>
    THEN {FixedColumnProcessor(PsRows[i], Find(PsHeader, PROCESSOR),
                               Find(PsHeader, CONTEXT)) :
             i \in {j \in 1..Len(PsRows) : Strip(PsRows[j]) # <<>>}}
    ELSE IF gpu_call.strategies = <<"whitespace-split">>
         THEN {SplitWhitespace(PsRows[i])[4] :
                  i \in {j \in 1..Len(PsRows) :
                           Len(SplitWhitespace(PsRows[j])) >= 4}}
         ELSE {}

\* C30: after either get_ollama_gpu_info, gpu_in_use and gpu_layers agree:
\* with gpu_in_use True, gpu_layers is the PROCESSOR value of a row that
\* contains GPU; with gpu_in_use False, gpu_layers is 'N/A' or the PROCESSOR
\* value of a row that contains CPU.
C30_GpuFieldsConsistent ==
    gpu_call.fn # "none" =>
        IF gpu_info.gpu_in_use
        THEN gpu_info.gpu_layers
                 \in {v \in ProcessorValues : Contains(Upper(v), GPU)}
        ELSE \/ gpu_info.gpu_layers = NA
             \/ gpu_info.gpu_layers
                    \in {v \in ProcessorValues : Contains(Upper(v), CPU)}

(***************************************************************************)
(* The benchmark run.                                                      *)
(***************************************************************************)
\* C22: the models are benchmarked one after the other in list order, each
\* once, with one result per model whatever the outcome, and the report is
\* rendered only when every model of the list has been benchmarked.
C22_SequentialPipeline ==
    /\ Len(runs) <= Len(models)
    /\ Len(results) = Len(runs)
    /\ \A i \in 1..Len(runs) :
          /\ runs[i].model = models[i]
          /\ i <= Len(results) => results[i].model = models[i]
    /\ report # None => Len(runs) = Len(models) /\ Len(results) = Len(models)

\* a report over six models of which some succeeded and some did not
C22_Witness ==
    /\ report # None
    /\ models = SixModels
    /\ Len(results) = 6
    /\ results[1].status = "timeout"
    /\ results[2].status = "success"
    /\ results[3].status = "error"
    /\ report[1].total = 6
    /\ report[1].failed = 2

MetricsAllNone(r) ==
    /\ r.first_token_time_ms = None
    /\ r.tokens_per_second = None
    /\ r.total_time_s = None
    /\ r.token_count = None

\* C27: benchmark_model never raises; the status of its result is success,
\* timeout or error; error is None exactly for success; the four metrics are
\* all None exactly when the status is not success; a timeout gives status
\* timeout with the error 'Timeout exceeded'.
C27_BenchmarkModelTotal ==
    /\ bpc # "raised"
    /\ \A i \in 1..Len(results) :
          /\ results[i].status \in {"success", "timeout", "error"}
          /\ results[i].error = None <=> results[i].status = "success"
          /\ MetricsAllNone(results[i]) <=> results[i].status # "success"
          /\ runs[i].outcome.kind = "TimeoutExpired" =>
                /\ results[i].status = "timeout"
                /\ results[i].error = Some("Timeout exceeded")

\* results of all three kinds, the error one from a command that could not be
\* started
C27_Witness ==
    /\ Len(results) = 3
    /\ runs[1].outcome.kind = "FileNotFoundError"
    /\ results[1].status = "error"
    /\ results[1].error = Some("FileNotFoundError")
    /\ runs[2].outcome.kind = "TimeoutExpired"
    /\ results[2].status = "timeout"
    /\ runs[3].outcome.kind = "exit"
    /\ results[3].status = "success"
    /\ results[3].token_count = Some(3)
    /\ results[3].total_time_s = Some(FInt(2))

ExitedWithZero(run) == run.outcome.kind = "exit" /\ run.outcome.returncode = 0

\* C28: a result has status success only if `ollama run` finished within the
\* timeout with exit code 0, and the report's 'Successful' count counts such
\* runs only.
C28_SuccessNeedsExitZero ==
    /\ Len(results) = Len(runs)
    /\ \A i \in 1..Len(results) :
          results[i].status = "success" => ExitedWithZero(runs[i])
    /\ report # None =>
          report[1].successful
              = Cardinality({i \in 1..Len(runs) : ExitedWithZero(runs[i])})

\* the number of entries of s equal to x
Count(s, x) == Cardinality({i \in 1..Len(s) : s[i] = x})

\* table lists the best five of the successful results by key
IsTopFive(table, key, reverse) ==
    LET all == TableRows(SelectSeq(results, IsSuccess), key)
        Before(a, b) == IF reverse THEN FLt(b, a) ELSE FLt(a, b)
    IN  /\ Len(table) <= 5
        /\ \A i \in 1..Len(table) : Count(table, table[i]) <= Count(all, table[i])
        /\ \A i \in 1..(Len(table) - 1) : ~Before(table[i + 1][2], table[i][2])
        /\ \A j \in 1..Len(all) :
              Count(table, all[j]) < Count(all, all[j]) =>
                  \A i \in 1..Len(table) : ~Before(all[j][2], table[i][2])

\* C26: in the report the table by first token latency lists at most five
\* models, all successful, in non-decreasing order of first_token_time_ms,
\* and no successful model that is left out is strictly faster than a listed
\* one; the table by throughput does the same in non-increasing order of
\* tokens_per_second; without a successful model there is neither table.
C26_TopFiveTables ==
    report # None =>
        IF SelectSeq(results, IsSuccess) = <<>>
        THEN report[1].by_latency = None /\ report[1].by_throughput = None
        ELSE /\ report[1].by_latency # None
             /\ report[1].by_throughput # None
             /\ IsTopFive(report[1].by_latency[1], "first_token_time_ms", FALSE)
             /\ IsTopFive(report[1].by_throughput[1], "tokens_per_second", TRUE)

\* six successful models: each table lists five, the one by latency does not
\* start with the first model of the list, and the two tables differ
C26_Witness ==
    /\ report # None
    /\ Len(SelectSeq(results, IsSuccess)) = 6
    /\ Len(report[1].by_latency[1]) = 5
    /\ Len(report[1].by_throughput[1]) = 5
    /\ report[1].by_latency[1][1][1] # models[1]
    /\ report[1].by_latency[1][1][1] # report[1].by_throughput[1][1][1]
    /\ FLt(report[1].by_latency[1][1][2], report[1].by_latency[1][5][2])
    /\ FLt(report[1].by_throughput[1][5][2], report[1].by_throughput[1][1][2])

=============================================================================
